---------------------------- MODULE Spec2Model ----------------------------
(***************************************************************************)
(* State-machine model of the qualest-be REST API (Express routers over     *)
(* Mongoose models).  The state is the content of the MongoDB collections,  *)
(* the create requests that are suspended between their pre-insert check    *)
(* and their insert, and the response of the request handled last.  Every   *)
(* route handler is one action (two for a handler whose awaits are          *)
(* interleaved with other requests).                                        *)
(***************************************************************************)
EXTENDS Naturals, Integers, Sequences, FiniteSets, TLC

(***************************************************************************)
(* Bounds of the model.                                                     *)
(***************************************************************************)
\* documents per collection; ObjectIds are 1..MaxDocs, MaxDocs+1 is an id
\* that is well formed but never stored
MaxDocs == 2
\* length of a permissions / roles list carried by a request
MaxRefs == 2
\* create requests suspended between check and insert
MaxInflight == 2
\* page and limit query parameters
MaxPage == 3
MaxLimit == 2
MaxClock == 2

(***************************************************************************)
(* Request values.  A string field missing from req.body / req.query is    *)
(* Absent; JavaScript treats undefined and "" alike in the handlers'       *)
(* truthiness tests and Mongoose's `required` validator rejects both.      *)
(* A missing id, number or array is None (<<>>), a present one Some(v).    *)
(***************************************************************************)
Absent == "<undefined>"
Truthy(s) == s # Absent /\ s # ""
None == << >>
Some(v) == << v >>
IsSome(o) == Len(o) = 1
Get(o) == o[1]
OrDefault(o, d) == IF IsSome(o) THEN Get(o) ELSE d

RefIds == 1 .. (MaxDocs + 1)

PermKeys == {"vwprj", "crtpr"}
PermNames == {"view_projects", "create_projects"}
RoleNames == {"Admin", "Viewer"}
RoleKeys == {"ADMIN", "VIEWR"}
Emails == {"bob@x", "eve@x"}
UserNames == {"Bob"}
ProjectNames == {"Alpha", "Beta"}
PlanNames == {"Smoke", "Regression"}
StepNames == {"Login", "Logout"}
Descriptions == {"text"}
Providers == {"google"}

\* every sequence over S of length at most n
RECURSIVE SeqsUpTo(_, _)
SeqsUpTo(S, n) ==
  IF n = 0 THEN {<< >>}
  ELSE LET shorter == SeqsUpTo(S, n - 1)
       IN shorter \cup {Append(s, x) : s \in {t \in shorter : Len(t) = n - 1}, x \in S}

Range(s) == {s[i] : i \in 1 .. Len(s)}

VARIABLES
  scope,        \* the router (workload) the behaviour exercises
  permissions,  \* Permission collection: _id -> document
  roles,        \* Role collection
  users,        \* User collection
  projects,     \* Project collection
  projectSeq,   \* number of Project ids issued so far (ids are never reused)
  testPlans,    \* TestPlan collection
  testSteps,    \* TestStep collection
  inflight,     \* slot -> create request suspended at `await doc.save()`
  now,          \* the server clock, Date.now()
  last          \* the request handled by the last step, with its response

vars == << scope, permissions, roles, users, projects, projectSeq, testPlans,
           testSteps, inflight, now, last >>

(***************************************************************************)
(* The storage layer: what MongoDB and Mongoose do for the handlers.        *)
(***************************************************************************)
EmptyColl == [i \in {} |-> [isDeleted |-> FALSE]]

\* ObjectId generation: a fresh id, never one of a stored document
NewId(coll) == Cardinality(DOMAIN coll) + 1

\* collection.insertOne
InsertOne(coll, doc) == (NewId(coll) :> doc) @@ coll

\* Model.find({ _id: { $in: ids } }): the stored documents whose id is listed
FindIn(coll, ids) == DOMAIN coll \cap Range(ids)

\* a field without an index: no write collides
NoDuplicateCheck(coll, self, field, value) == FALSE

\* a unique index: does writing `value` to `field` of document `self`
\* (0 for an insert) collide with another stored document?  (E11000)
DuplicateKey(coll, self, field, value) ==
  \E i \in DOMAIN coll : i # self /\ coll[i][field] = value

\* $regex with $options 'i' on the sample values: term is a case-insensitive
\* substring of value
RegexPairs ==
  { <<"a", "Alpha">>, <<"a", "Beta">>, <<"alp", "Alpha">>,
    <<"view", "view_projects">>, <<"proj", "view_projects">>,
    <<"proj", "create_projects">>, <<"proj", "update_projects">>,
    <<"proj", "delete_projects">>, <<"log", "Login">>, <<"log", "Logout">>,
    <<"b", "Bob">>, <<"smo", "Smoke">> }
RegexMatch(term, value) == << term, value >> \in RegexPairs

\* the order MongoDB sorts the sample strings in
SortRank(v) ==
  CASE v = "Alpha" -> 1 [] v = "Beta" -> 2
    [] v = "create_projects" -> 1 [] v = "delete_projects" -> 2
    [] v = "update_projects" -> 3 [] v = "view_projects" -> 4
    [] v = "Regression" -> 1 [] v = "Smoke" -> 2
    [] v = "Login" -> 1 [] v = "Logout" -> 2
    [] v = "Admin" -> 1 [] v = "Viewer" -> 2
    [] OTHER -> 0

\* cursor.sort({ [field]: dir }) over the documents `ids` of coll; field
\* None sorts on the creation time, which grows with the id; ties keep
\* creation order
RECURSIVE SortIds(_, _, _, _)
SortIds(coll, ids, field, dir) ==
  IF ids = {} THEN << >>
  ELSE LET rank(i) == IF IsSome(field) /\ Get(field) \in DOMAIN coll[i]
                      THEN SortRank(coll[i][Get(field)]) ELSE 0
           before(i, j) ==
             \/ (IF dir = 1 THEN rank(i) < rank(j) ELSE rank(i) > rank(j))
             \/ rank(i) = rank(j) /\ i < j
           first == CHOOSE i \in ids : \A j \in ids \ {i} : before(i, j)
       IN << first >> \o SortIds(coll, ids \ {first}, field, dir)

\* cursor.skip(n): the sequence without its first n elements
Skip(s, n) == IF n >= Len(s) THEN << >> ELSE SubSeq(s, n + 1, Len(s))
\* cursor.limit(n)
Limit(s, n) == IF n >= Len(s) THEN s ELSE SubSeq(s, 1, n)

(***************************************************************************)
(* The list-query pattern every paginated handler repeats.                  *)
(***************************************************************************)
PageDefault == 1
LimitDefault == 10

\* ?page= is any integer the client writes: also 0 and a negative one
MinPage == -1
PageParams == {None} \cup {Some(p) : p \in MinPage .. MaxPage}
LimitParams == {None} \cup {Some(l) : l \in 1 .. MaxLimit}
\* ?order= is free text: the two documented values, none, and another word
OrderParams == {Absent, "asc", "desc", "up"}
SortParams == {None, Some("name")}
NoFilter == [by |-> Absent, term |-> Absent]

Query(page, limit, sortBy, order, filter, deleted) ==
  [page |-> page, limit |-> limit, sortBy |-> sortBy, order |-> order,
   filter |-> filter, deleted |-> deleted]

\* the req.query objects the model sends: every page/limit window, every
\* sort, and every name filter with every value of the `deleted` flag
ListQueries(terms, flags) ==
  {Query(p, l, None, Absent, NoFilter, Absent) : p \in PageParams, l \in LimitParams}
  \cup {Query(None, None, s, o, NoFilter, Absent) : s \in SortParams, o \in OrderParams}
  \cup {Query(None, Some(1), None, Absent, [by |-> "name", term |-> t], d) :
          t \in terms, d \in flags}
  \cup {Query(None, None, None, Absent, NoFilter, d) : d \in flags}

\* a skip that is one page too far
SkipOfBug(page, limit) == page * limit

\* const skip = (page - 1) * limit
SkipOf(page, limit) == (page - 1) * limit

\* Math.floor(total / limit)
FloorDiv(total, limit) == total \div limit

\* Math.ceil(total / limit)
MathCeilDiv(total, limit) ==
  IF total % limit = 0 THEN total \div limit ELSE (total \div limit) + 1

\* filter[filterBy] = { $regex: filterTerm, $options: 'i' } when both are given
MatchesFilter(doc, f) ==
  (Truthy(f.by) /\ Truthy(f.term)) =>
     (f.by \in DOMAIN doc /\ RegexMatch(f.term, doc[f.by]))

\* countDocuments(filter) and find(filter): the ids that match
Matching(coll, f, hideDeleted) ==
  {i \in DOMAIN coll : MatchesFilter(coll[i], f) /\ (hideDeleted => ~coll[i].isDeleted)}

\* find(filter).sort(sort).skip(skip).limit(limit)
FindPage(coll, match, field, dir, skip, limit) ==
  Limit(Skip(SortIds(coll, match, field, dir), skip), limit)

\* res.status(200).json({ total, page, totalPages, <items> })
Envelope(op, q, total, page, limit, items) ==
  [op |-> op, status |-> 200, error |-> Absent, req |-> q, total |-> total,
   page |-> page, limit |-> limit, totalPages |-> MathCeilDiv(total, limit),
   items |-> items]

Reply(op, status, error, req) ==
  [op |-> op, status |-> status, error |-> error, req |-> req]

\* the end of a list handler: cursor.skip(n) with n < 0 is refused by the
\* server, find() rejects and the catch block answers 500; otherwise the
\* envelope
ListOutcome(op, q, total, page, limit, items) ==
  IF SkipOf(page, limit) < 0
  THEN Reply(op, 500, "BSON field 'skip' value must be >= 0", q)
  ELSE Envelope(op, q, total, page, limit, items)

(***************************************************************************)
(* routes/permissions.js                                                    *)
(***************************************************************************)
\* the catch block of POST and PUT: err.code === 11000 ? 400 : 500
PermissionCatchStatus(dup) == IF dup THEN 400 ELSE 500

PermissionPostBodies ==
  [key : PermKeys \cup {Absent}, name : PermNames \cup {Absent},
   description : Descriptions \cup {Absent}]

PermissionPost(body) ==
  LET dup == DuplicateKey(permissions, 0, "key", body.key)
             \/ DuplicateKey(permissions, 0, "name", body.name)
      doc == [key |-> body.key, name |-> body.name,
              description |-> body.description, isDeleted |-> FALSE, updated |-> now]
  IN
  IF ~Truthy(body.key) \/ ~Truthy(body.name)
  THEN /\ last' = Reply("permissionPost", 400, "Key and name are required", body)
       /\ UNCHANGED permissions
  ELSE IF ~Truthy(body.description)
  THEN \* save() runs the schema's validators first: description is required
       /\ last' = Reply("permissionPost", PermissionCatchStatus(FALSE),
                        "Permission validation failed", body)
       /\ UNCHANGED permissions
  ELSE IF dup
  THEN /\ last' = Reply("permissionPost", PermissionCatchStatus(TRUE),
                        IF PermissionCatchStatus(TRUE) = 400
                        THEN "Permission key and name must be unique"
                        ELSE "E11000 duplicate key error", body)
       /\ UNCHANGED permissions
  ELSE /\ Cardinality(DOMAIN permissions) < MaxDocs
       /\ permissions' = InsertOne(permissions, doc)
       /\ last' = Reply("permissionPost", 201, Absent, body)
                    @@ [id |-> NewId(permissions)]

PermissionPutBodies ==
  [key : PermKeys \cup {Absent}, name : PermNames \cup {Absent},
   description : Descriptions \cup {Absent}]

\* updates.updatedAt = Date.now() (updated_at in the schemas that name it so)
Touch(doc) == [doc EXCEPT !.updated = now]

\* the $set of a partial update: only the fields the handler copied
ApplyUpdates(doc, updates) ==
  [f \in DOMAIN doc |->
     IF f \in DOMAIN updates /\ Truthy(updates[f]) THEN updates[f] ELSE doc[f]]

PermissionPut(id, body) ==
  LET dup == \/ Truthy(body.key) /\ DuplicateKey(permissions, id, "key", body.key)
             \/ Truthy(body.name) /\ DuplicateKey(permissions, id, "name", body.name)
      req == [id |-> id, body |-> body]
  IN
  IF ~Truthy(body.key) /\ ~Truthy(body.name) /\ ~Truthy(body.description)
  THEN /\ last' = Reply("permissionPut", 400,
            "At least one field (key, name, or description) must be provided", req)
       /\ UNCHANGED permissions
  ELSE IF id \notin DOMAIN permissions
  THEN /\ last' = Reply("permissionPut", 404, "Permission not found", req)
       /\ UNCHANGED permissions
  ELSE IF dup
  THEN /\ last' = Reply("permissionPut", PermissionCatchStatus(TRUE),
                        IF PermissionCatchStatus(TRUE) = 400
                        THEN "Duplicate key or name"
                        ELSE "E11000 duplicate key error", req)
       /\ UNCHANGED permissions
  ELSE /\ permissions' = [permissions EXCEPT ![id] = Touch(ApplyUpdates(@, body))]
       /\ last' = Reply("permissionPut", 200, Absent, req)

PermissionDelete(id) ==
  IF id \notin DOMAIN permissions
  THEN /\ last' = Reply("permissionDelete", 404, "Permission not found", [id |-> id])
       /\ UNCHANGED permissions
  ELSE /\ permissions' = [permissions EXCEPT ![id] = Touch([@ EXCEPT !.isDeleted = TRUE])]
       /\ last' = Reply("permissionDelete", 200, Absent, [id |-> id])

PermissionGet(id) ==
  /\ UNCHANGED permissions
  /\ IF id \notin DOMAIN permissions \/ permissions[id].isDeleted
     THEN last' = Reply("permissionGet", 404, "Permission not found", [id |-> id])
     ELSE last' = Reply("permissionGet", 200, Absent, [id |-> id])
                    @@ [doc |-> permissions[id]]

PermissionListQueries == ListQueries({"view", "proj", "zzz"}, {Absent, "true", "false"})

PermissionList(q) ==
  LET page == OrDefault(q.page, PageDefault)
      limit == OrDefault(q.limit, LimitDefault)
      order == IF q.order = Absent THEN "asc" ELSE q.order
      skip == SkipOf(page, limit)
      \* if (!deleted) filter.isDeleted = false
      match == Matching(permissions, q.filter, ~Truthy(q.deleted))
      dir == IF IsSome(q.sortBy) THEN (IF order = "asc" THEN 1 ELSE -1) ELSE 1
      total == Cardinality(match)
      items == FindPage(permissions, match, q.sortBy, dir, skip, limit)
  IN /\ UNCHANGED permissions
     /\ last' = ListOutcome("permissionList", q, total, page, limit, items)

OtherThanPermissions ==
  << scope, roles, users, projects, projectSeq, testPlans, testSteps, inflight, now >>

PermissionCreate ==
  /\ \E body \in PermissionPostBodies : PermissionPost(body)
  /\ UNCHANGED OtherThanPermissions

PermissionUpdate ==
  /\ \E id \in RefIds, body \in PermissionPutBodies : PermissionPut(id, body)
  /\ UNCHANGED OtherThanPermissions

PermissionSoftDelete ==
  /\ \E id \in RefIds : PermissionDelete(id)
  /\ UNCHANGED OtherThanPermissions

PermissionRead ==
  /\ \E id \in RefIds : PermissionGet(id)
  /\ UNCHANGED OtherThanPermissions

PermissionListAll ==
  /\ \E q \in PermissionListQueries : PermissionList(q)
  /\ UNCHANGED OtherThanPermissions

(***************************************************************************)
(* The roles router (unnamed/part_001, second module).                      *)
(***************************************************************************)
\* Permission.find({ _id: { $in: permissions } }) returns one document per
\* stored id that is listed; the handler compares its length with the list's
AllResolve(coll, list) == Cardinality(FindIn(coll, list)) = Len(list)

\* the id lists a request carries: order does not matter to $in, so the
\* model sends the non-decreasing ones (a repeated id included)
SortedLists ==
  {l \in SeqsUpTo(RefIds, MaxRefs) : \A i \in 1 .. (Len(l) - 1) : l[i] <= l[i + 1]}
RefLists == {None} \cup {Some(l) : l \in SortedLists}

RoleBody(name, key, description, perms) ==
  [name |-> name, key |-> key, description |-> description, permissions |-> perms]

\* every list under the first role, a second role, and a body with each
\* required field missing in turn
RolePostBodies ==
  {RoleBody("Admin", "ADMIN", "text", l) : l \in RefLists}
  \cup {RoleBody("Viewer", "VIEWR", "text", Some(<< >>)),
        RoleBody(Absent, "ADMIN", "text", Some(<< >>)),
        RoleBody("Admin", Absent, "text", Some(<< >>)),
        RoleBody("Admin", "ADMIN", Absent, Some(<< >>))}

\* the handler up to `await role.save()`: the reply that ends it early, or
\* status 0 when it goes on to save
RolePostCheck(body) ==
  IF ~Truthy(body.name) \/ ~Truthy(body.key) \/ ~Truthy(body.description)
     \/ ~IsSome(body.permissions)
  THEN Reply("rolePost", 400, "Name, key, description, and permissions are required", body)
  ELSE IF ~AllResolve(permissions, Get(body.permissions))
  THEN Reply("rolePost", 400, "Invalid permissions provided", body)
  ELSE IF \E i \in DOMAIN roles : roles[i].name = body.name \/ roles[i].key = body.key
  THEN Reply("rolePost", 400, "Role name or key already exists", body)
  ELSE Reply("rolePost", 0, Absent, body)

\* `await role.save()` and what follows it; the catch block answers 500 to
\* every error, E11000 included
RolePostSave(body) ==
  LET dup == DuplicateKey(roles, 0, "name", body.name)
             \/ DuplicateKey(roles, 0, "key", body.key)
      doc == [name |-> body.name, key |-> body.key,
              permissions |-> Get(body.permissions), isDeleted |-> FALSE, updated |-> now]
  IN IF dup
     THEN /\ last' = Reply("rolePost", 500, "E11000 duplicate key error", body)
          /\ UNCHANGED roles
     ELSE /\ Cardinality(DOMAIN roles) < MaxDocs
          /\ roles' = InsertOne(roles, doc)
          /\ last' = Reply("rolePost", 201, Absent, body) @@ [id |-> NewId(roles)]

\* the whole handler when no other request runs between its awaits
RolePost(body) ==
  IF RolePostCheck(body).status # 0
  THEN last' = RolePostCheck(body) /\ UNCHANGED roles
  ELSE RolePostSave(body)

RolePutBodies ==
  {RoleBody(Absent, Absent, Absent, l) : l \in RefLists}
  \cup {RoleBody("Viewer", Absent, Absent, None), RoleBody(Absent, Absent, "text", None)}

RolePut(id, body) ==
  LET dup == \/ Truthy(body.name) /\ DuplicateKey(roles, id, "name", body.name)
             \/ Truthy(body.key) /\ DuplicateKey(roles, id, "key", body.key)
      req == [id |-> id, body |-> body]
      \* description is no path of RoleSchema: strict mode drops it
      set(doc) == [ApplyUpdates(doc, [name |-> body.name, key |-> body.key])
                     EXCEPT !.permissions = IF IsSome(body.permissions)
                                            THEN Get(body.permissions) ELSE @]
  IN
  IF ~Truthy(body.name) /\ ~Truthy(body.key) /\ ~Truthy(body.description)
     /\ ~IsSome(body.permissions)
  THEN /\ last' = Reply("rolePut", 400, "At least one field must be provided to update", req)
       /\ UNCHANGED roles
  ELSE IF IsSome(body.permissions) /\ ~AllResolve(permissions, Get(body.permissions))
  THEN /\ last' = Reply("rolePut", 400, "Invalid permissions provided", req)
       /\ UNCHANGED roles
  ELSE IF id \notin DOMAIN roles
  THEN /\ last' = Reply("rolePut", 404, "Role not found", req)
       /\ UNCHANGED roles
  ELSE IF dup
  THEN /\ last' = Reply("rolePut", 400, "Role name or key must be unique", req)
       /\ UNCHANGED roles
  ELSE /\ roles' = [roles EXCEPT ![id] = Touch(set(@))]
       /\ last' = Reply("rolePut", 200, Absent, req)

RoleDelete(id) ==
  IF id \notin DOMAIN roles
  THEN /\ last' = Reply("roleDelete", 404, "Role not found", [id |-> id])
       /\ UNCHANGED roles
  ELSE /\ roles' = [roles EXCEPT ![id] = Touch([@ EXCEPT !.isDeleted = TRUE])]
       /\ last' = Reply("roleDelete", 200, Absent, [id |-> id])

\* populate with match: { isDeleted: false }: soft-deleted documents dropped
RECURSIVE PopulateLive(_, _)
PopulateLive(coll, list) ==
  IF list = << >> THEN << >>
  ELSE (IF Head(list) \in DOMAIN coll /\ ~coll[Head(list)].isDeleted
        THEN << Head(list) >> ELSE << >>)
         \o PopulateLive(coll, Tail(list))

\* populate(path): the listed ids that resolve, in the order listed
RECURSIVE Populate(_, _)
Populate(coll, list) ==
  IF list = << >> THEN << >>
  ELSE (IF Head(list) \in DOMAIN coll THEN << Head(list) >> ELSE << >>)
         \o Populate(coll, Tail(list))

RoleGet(id) ==
  /\ UNCHANGED roles
  /\ IF id \notin DOMAIN roles
     THEN last' = Reply("roleGet", 404, "Role ID not found", [id |-> id])
     ELSE last' = Reply("roleGet", 200, Absent, [id |-> id])
                    @@ [doc |-> roles[id],
                        permissions |-> Populate(permissions, roles[id].permissions)]

RoleListQueries ==
  {Query(None, None, s, o, NoFilter, Absent) : s \in SortParams, o \in OrderParams}
  \cup {Query(None, None, None, Absent, [by |-> "name", term |-> t], Absent) :
          t \in {"a", "zzz"}}

\* GET /api/roles answers a bare array: no filter on isDeleted, no window
RoleList(q) ==
  LET order == IF q.order = Absent THEN "asc" ELSE q.order
      dir == IF order = "desc" THEN -1 ELSE 1
      match == Matching(roles, q.filter, FALSE)
      items == SortIds(roles, match, q.sortBy, dir)
  IN /\ UNCHANGED roles
     /\ last' = Reply("roleList", 200, Absent, q) @@ [items |-> items]

OtherThanRoles ==
  << scope, permissions, users, projects, projectSeq, testPlans, testSteps, inflight, now >>

(***************************************************************************)
(* The users router (unnamed/part_004).  The module requires only           *)
(* ../models/User: the identifier Role it uses is not defined, so           *)
(* evaluating `Role.find` throws a ReferenceError inside the try block.     *)
(***************************************************************************)
UserBody(name, email, rolesList, provider) ==
  [name |-> name, email |-> email, roles |-> rolesList, provider |-> provider]

\* the handler up to `await user.save()`: the reply that ends it early, or
\* status 0 when it goes on to save
UserPostCheck(body) ==
  IF ~Truthy(body.name) \/ ~Truthy(body.email)
  THEN Reply("userPost", 400, "Name and email are required", body)
  ELSE IF \E i \in DOMAIN users : users[i].email = body.email
  THEN Reply("userPost", 400, "Email already exists", body)
  ELSE IF IsSome(body.roles) /\ Len(Get(body.roles)) > 0
  THEN Reply("userPost", 500, "Role is not defined", body)
  ELSE Reply("userPost", 0, Absent, body)

\* `await user.save()` and what follows it; the catch block answers 500 to
\* every error, E11000 included
UserPostSave(body) ==
  LET doc == [name |-> body.name, email |-> body.email,
              roles |-> IF IsSome(body.roles) THEN Get(body.roles) ELSE << >>,
              provider |-> IF Truthy(body.provider) THEN body.provider ELSE "local",
              isDeleted |-> FALSE, updated |-> now]
  IN IF DuplicateKey(users, 0, "email", body.email)
     THEN /\ last' = Reply("userPost", 500, "E11000 duplicate key error", body)
          /\ UNCHANGED users
     ELSE /\ Cardinality(DOMAIN users) < MaxDocs
          /\ users' = InsertOne(users, doc)
          /\ last' = Reply("userPost", 201, Absent, body) @@ [id |-> NewId(users)]

\* the whole handler when no other request runs between its awaits
UserPost(body) ==
  IF UserPostCheck(body).status # 0
  THEN last' = UserPostCheck(body) /\ UNCHANGED users
  ELSE UserPostSave(body)

\* the keys as flatMap returned them, without new Set
KeepDuplicates(keys) == keys

\* [...new Set(keys)]: each key once, in the order of its first occurrence
RECURSIVE Dedupe(_)
Dedupe(keys) ==
  IF keys = << >> THEN << >>
  ELSE LET front == Dedupe(SubSeq(keys, 1, Len(keys) - 1))
           k == keys[Len(keys)]
       IN IF k \in Range(front) THEN front ELSE Append(front, k)

\* role.permissions.map((perm) => perm.key) over the populated permissions
PermissionKeys(role) ==
  LET ps == Populate(permissions, role.permissions)
  IN [i \in 1 .. Len(ps) |-> permissions[ps[i]].key]

\* user.roles.flatMap(role => role.permissions.map(perm => perm.key))
RECURSIVE FlatMapKeys(_)
FlatMapKeys(roleIds) ==
  IF roleIds = << >> THEN << >>
  ELSE PermissionKeys(roles[Head(roleIds)]) \o FlatMapKeys(Tail(roleIds))

EffectivePermissions(user) == Dedupe(FlatMapKeys(Populate(roles, user.roles)))

\* GET /api/users/:id: findById takes no isDeleted filter
UserGet(id) ==
  /\ UNCHANGED users
  /\ IF id \notin DOMAIN users
     THEN last' = Reply("userGet", 404, "User not found", [id |-> id])
     ELSE last' = Reply("userGet", 200, Absent, [id |-> id])
                    @@ [doc |-> users[id],
                        effectivePermissions |-> EffectivePermissions(users[id])]

UserListQueries == ListQueries({"b", "zzz"}, {Absent})

UserList(q) ==
  LET page == OrDefault(q.page, PageDefault)
      limit == OrDefault(q.limit, LimitDefault)
      order == IF q.order = Absent THEN "asc" ELSE q.order
      skip == SkipOf(page, limit)
      dir == IF order = "desc" THEN -1 ELSE 1
      match == Matching(users, q.filter, TRUE)
      total == Cardinality(match)
      items == FindPage(users, match, q.sortBy, dir, skip, limit)
  IN /\ UNCHANGED users
     /\ last' = ListOutcome("userList", q, total, page, limit, items)

UserPut(id, body) ==
  LET req == [id |-> id, body |-> body]
      live == id \in DOMAIN users /\ ~users[id].isDeleted
  IN
  IF ~Truthy(body.name) /\ ~Truthy(body.email) /\ ~IsSome(body.roles)
     /\ ~Truthy(body.provider)
  THEN /\ last' = Reply("userPut", 400, "At least one field must be provided for update", req)
       /\ UNCHANGED users
  ELSE IF IsSome(body.roles)
  THEN /\ last' = Reply("userPut", 500, "Role is not defined", req)
       /\ UNCHANGED users
  ELSE IF ~live
  THEN /\ last' = Reply("userPut", 404, "User not found", req)
       /\ UNCHANGED users
  ELSE IF Truthy(body.email) /\ DuplicateKey(users, id, "email", body.email)
  THEN /\ last' = Reply("userPut", 500, "E11000 duplicate key error", req)
       /\ UNCHANGED users
  ELSE /\ users' = [users EXCEPT ![id] =
                      Touch(ApplyUpdates(@, [name |-> body.name, email |-> body.email,
                                             provider |-> body.provider]))]
       /\ last' = Reply("userPut", 200, Absent, req)

\* the handler with the filter { _id: id }: any stored user is written
UserDeleteUnguarded(id, undelete) ==
  LET un == undelete = "true"
      req == [id |-> id, undelete |-> undelete]
  IN IF id \in DOMAIN users
     THEN /\ users' = [users EXCEPT ![id] = Touch([@ EXCEPT !.isDeleted = ~un])]
          /\ last' = Reply("userDelete", 200, Absent, req)
     ELSE /\ UNCHANGED users
          /\ last' = Reply("userDelete", 404, "User not found", req)

\* DELETE /api/users/:id?undelete=...: the filter matches only a user whose
\* isDeleted is the opposite of what the request sets
UserDelete(id, undelete) ==
  LET un == undelete = "true"
      req == [id |-> id, undelete |-> undelete]
  IN IF id \in DOMAIN users /\ users[id].isDeleted = un
     THEN /\ users' = [users EXCEPT ![id] = Touch([@ EXCEPT !.isDeleted = ~un])]
          /\ last' = Reply("userDelete", 200, Absent, req)
     ELSE /\ UNCHANGED users
          /\ last' = Reply("userDelete", 404, "User not found", req)

OtherThanUsers ==
  << scope, permissions, roles, projects, projectSeq, testPlans, testSteps, inflight, now >>

(***************************************************************************)
(* The projects router (unnamed/part_000).                                  *)
(***************************************************************************)
ProjectBody(name, description) == [name |-> name, description |-> description]

\* the handler without `await project.save()`: the reply, and nothing stored
ProjectPostUnsaved(body) ==
  IF ~Truthy(body.name)
  THEN /\ last' = Reply("projectPost", 500, "Project validation failed", body)
       /\ UNCHANGED << projects, projectSeq >>
  ELSE /\ projectSeq < MaxDocs
       /\ projectSeq' = projectSeq + 1
       /\ UNCHANGED projects
       /\ last' = Reply("projectPost", 201, Absent, body)
                    @@ [id |-> projectSeq + 1,
                        doc |-> [name |-> body.name, description |-> body.description]]

\* POST /api/projects: new Project(req.body).save(); the schema requires name
ProjectPost(body) ==
  IF ~Truthy(body.name)
  THEN /\ last' = Reply("projectPost", 500, "Project validation failed", body)
       /\ UNCHANGED << projects, projectSeq >>
  ELSE /\ projectSeq < MaxDocs
       /\ projectSeq' = projectSeq + 1
       /\ projects' = ((projectSeq + 1) :>
                         [name |-> body.name, description |-> body.description,
                          isDeleted |-> FALSE, updated |-> now]) @@ projects
       /\ last' = Reply("projectPost", 201, Absent, body)
                    @@ [id |-> projectSeq + 1,
                        doc |-> [name |-> body.name, description |-> body.description]]

\* the handler without its `if (!project)` branch: 200 whatever findById gave
ProjectGetUnchecked(id) ==
  /\ UNCHANGED << projects, projectSeq >>
  /\ IF id \notin DOMAIN projects
     THEN last' = Reply("projectGet", 200, Absent, [id |-> id])
     ELSE last' = Reply("projectGet", 200, Absent, [id |-> id]) @@ [doc |-> projects[id]]

\* GET /api/projects/:id: findById, 404 when it finds nothing
ProjectGet(id) ==
  /\ UNCHANGED << projects, projectSeq >>
  /\ IF id \notin DOMAIN projects
     THEN last' = Reply("projectGet", 404, "Project not found", [id |-> id])
     ELSE last' = Reply("projectGet", 200, Absent, [id |-> id]) @@ [doc |-> projects[id]]

\* PUT /api/projects/:id: findByIdAndUpdate(id, req.body, { new: true }).
\* The body is the update: every schema path it carries is written, isDeleted
\* included, and nothing sets updated_at.
ProjectPut(id, body) ==
  LET req == [id |-> id, body |-> body]
      set(doc) == [ApplyUpdates(doc, [name |-> body.name, description |-> body.description])
                     EXCEPT !.isDeleted = IF "isDeleted" \in DOMAIN body
                                          THEN body.isDeleted ELSE @]
  IN /\ UNCHANGED projectSeq
     /\ IF id \notin DOMAIN projects
        THEN /\ last' = Reply("projectPut", 404, "Project not found", req)
             /\ UNCHANGED projects
        ELSE /\ projects' = [projects EXCEPT ![id] = set(@)]
             /\ last' = Reply("projectPut", 200, Absent, req)

\* DELETE /api/projects/:id: findByIdAndDelete removes the document
ProjectDelete(id) ==
  /\ UNCHANGED projectSeq
  /\ IF id \notin DOMAIN projects
     THEN /\ last' = Reply("projectDelete", 404, "Project not found", [id |-> id])
          /\ UNCHANGED projects
     ELSE /\ projects' = [i \in DOMAIN projects \ {id} |-> projects[i]]
          /\ last' = Reply("projectDelete", 200, Absent, [id |-> id])

ProjectListQueries == ListQueries({"a", "alp", "zzz"}, {Absent})

\* GET /api/projects: ?name= is the filter; no filter on isDeleted
ProjectList(q) ==
  LET page == OrDefault(q.page, PageDefault)
      limit == OrDefault(q.limit, LimitDefault)
      skip == SkipOf(page, limit)
      dir == IF IsSome(q.sortBy) THEN (IF q.order = "desc" THEN -1 ELSE 1) ELSE 1
      match == Matching(projects, q.filter, FALSE)
      items == FindPage(projects, match, q.sortBy, dir, skip, limit)
      total == Cardinality(match)
  IN /\ UNCHANGED << projects, projectSeq >>
     /\ last' = ListOutcome("projectList", q, total, page, limit, items)

\* the body of POST /api/projects/search: pagination, one filter, one sort
SearchBodies ==
  {Query(p, l, None, Absent, NoFilter, Absent) : p \in PageParams, l \in LimitParams}
  \cup {Query(None, None, Some("name"), o, NoFilter, Absent) : o \in OrderParams}
  \cup {Query(None, None, None, Absent, [by |-> "name", term |-> t], Absent) :
          t \in {"a", "zzz"}}

\* POST /api/projects/search: page = pagination.page || 1, so 0 becomes 1 and
\* a negative page stays; a sort entry is ascending only for order 'asc'
ProjectSearch(q) ==
  LET page == IF IsSome(q.page) /\ Get(q.page) # 0 THEN Get(q.page) ELSE PageDefault
      limit == OrDefault(q.limit, LimitDefault)
      skip == SkipOf(page, limit)
      dir == IF q.order = "asc" THEN 1 ELSE -1
      match == Matching(projects, q.filter, FALSE)
      items == FindPage(projects, match, q.sortBy, dir, skip, limit)
      total == Cardinality(match)
  IN /\ UNCHANGED << projects, projectSeq >>
     /\ last' = ListOutcome("projectSearch", q, total, page, limit, items)

OtherThanProjects ==
  << scope, permissions, roles, users, testPlans, testSteps, inflight, now >>

(***************************************************************************)
(* The test-plans router (routes/testPlans.js, second module).  It requires *)
(* only ../models/TestPlan: Project and User, which POST uses, are not      *)
(* defined, so evaluating `Project.findById` throws a ReferenceError.       *)
(***************************************************************************)
PlanBody(name, description, project_id) ==
  [name |-> name, description |-> description, project_id |-> project_id]

TestPlanPost(body) ==
  /\ UNCHANGED testPlans
  /\ IF ~Truthy(body.name) \/ ~IsSome(body.project_id)
     THEN last' = Reply("testPlanPost", 400, "Name and project ID are required", body)
     ELSE last' = Reply("testPlanPost", 500, "Project is not defined", body)

\* populate('project_id', 'name description'): the project, or null
ExpandProject(plan) ==
  IF plan.project_id \in DOMAIN projects
  THEN Some([name |-> projects[plan.project_id].name,
             description |-> projects[plan.project_id].description])
  ELSE None

TestPlanListQueries == ListQueries({"smo", "zzz"}, {Absent})

TestPlanList(q) ==
  LET page == OrDefault(q.page, PageDefault)
      limit == OrDefault(q.limit, LimitDefault)
      order == IF q.order = Absent THEN "asc" ELSE q.order
      skip == SkipOf(page, limit)
      dir == IF order = "desc" THEN -1 ELSE 1
      match == Matching(testPlans, q.filter, TRUE)
      total == Cardinality(match)
      items == FindPage(testPlans, match, q.sortBy, dir, skip, limit)
  IN /\ UNCHANGED testPlans
     /\ last' = IF skip < 0
                THEN ListOutcome("testPlanList", q, total, page, limit, items)
                ELSE ListOutcome("testPlanList", q, total, page, limit, items)
                       @@ [expanded |-> [i \in 1 .. Len(items) |->
                                           ExpandProject(testPlans[items[i]])]]

TestPlanGet(id) ==
  /\ UNCHANGED testPlans
  /\ IF id \notin DOMAIN testPlans \/ testPlans[id].isDeleted
     THEN last' = Reply("testPlanGet", 404, "Test plan not found", [id |-> id])
     ELSE last' = Reply("testPlanGet", 200, Absent, [id |-> id])
                    @@ [doc |-> testPlans[id], expanded |-> ExpandProject(testPlans[id])]

\* PUT /api/test-plans/:id: findByIdAndUpdate, with no check of project_id
TestPlanPut(id, body) ==
  LET req == [id |-> id, body |-> body]
      set(doc) == [ApplyUpdates(doc, [name |-> body.name, description |-> body.description])
                     EXCEPT !.project_id = IF IsSome(body.project_id)
                                           THEN Get(body.project_id) ELSE @]
  IN
  IF ~Truthy(body.name) /\ ~Truthy(body.description) /\ ~IsSome(body.project_id)
  THEN /\ last' = Reply("testPlanPut", 400, "At least one field must be provided for update", req)
       /\ UNCHANGED testPlans
  ELSE IF id \notin DOMAIN testPlans
  THEN /\ last' = Reply("testPlanPut", 404, "Test plan not found", req)
       /\ UNCHANGED testPlans
  ELSE /\ testPlans' = [testPlans EXCEPT ![id] = Touch(set(@))]
       /\ last' = Reply("testPlanPut", 200, Absent, req)

TestPlanDelete(id) ==
  IF id \notin DOMAIN testPlans
  THEN /\ last' = Reply("testPlanDelete", 404, "Test plan not found", [id |-> id])
       /\ UNCHANGED testPlans
  ELSE /\ testPlans' = [testPlans EXCEPT ![id] = Touch([@ EXCEPT !.isDeleted = TRUE])]
       /\ last' = Reply("testPlanDelete", 200, Absent, [id |-> id])

OtherThanTestPlans ==
  << scope, permissions, roles, users, projects, projectSeq, testSteps, inflight, now >>

(***************************************************************************)
(* The test-steps router (unnamed/part_001, first module).                  *)
(***************************************************************************)
StepBody(name, description, expected_result, test_plan_id) ==
  [name |-> name, description |-> description, expected_result |-> expected_result,
   test_plan_id |-> test_plan_id]

\* POST /api/test-steps: no lookup of the test plan
TestStepPost(body) ==
  IF ~Truthy(body.name) \/ ~IsSome(body.test_plan_id)
  THEN /\ last' = Reply("testStepPost", 400, "Name and test plan ID are required", body)
       /\ UNCHANGED testSteps
  ELSE /\ Cardinality(DOMAIN testSteps) < MaxDocs
       /\ testSteps' = InsertOne(testSteps,
                         [name |-> body.name, description |-> body.description,
                          expected_result |-> body.expected_result,
                          test_plan_id |-> Get(body.test_plan_id), isDeleted |-> FALSE, updated |-> now])
       /\ last' = Reply("testStepPost", 201, Absent, body) @@ [id |-> NewId(testSteps)]

TestStepListQueries == ListQueries({"log", "zzz"}, {Absent})

TestStepList(q) ==
  LET page == OrDefault(q.page, PageDefault)
      limit == OrDefault(q.limit, LimitDefault)
      order == IF q.order = Absent THEN "asc" ELSE q.order
      skip == SkipOf(page, limit)
      dir == IF order = "desc" THEN -1 ELSE 1
      match == Matching(testSteps, q.filter, TRUE)
      total == Cardinality(match)
      items == FindPage(testSteps, match, q.sortBy, dir, skip, limit)
  IN /\ UNCHANGED testSteps
     /\ last' = ListOutcome("testStepList", q, total, page, limit, items)

TestStepGet(id) ==
  /\ UNCHANGED testSteps
  /\ IF id \notin DOMAIN testSteps \/ testSteps[id].isDeleted
     THEN last' = Reply("testStepGet", 404, "Test step not found", [id |-> id])
     ELSE last' = Reply("testStepGet", 200, Absent, [id |-> id]) @@ [doc |-> testSteps[id]]

TestStepPut(id, body) ==
  LET req == [id |-> id, body |-> body]
  IN
  IF ~Truthy(body.name) /\ ~Truthy(body.description) /\ ~Truthy(body.expected_result)
  THEN /\ last' = Reply("testStepPut", 400, "At least one field must be provided for update", req)
       /\ UNCHANGED testSteps
  ELSE IF id \notin DOMAIN testSteps \/ testSteps[id].isDeleted
  THEN /\ last' = Reply("testStepPut", 404, "Test step not found", req)
       /\ UNCHANGED testSteps
  ELSE /\ testSteps' = [testSteps EXCEPT ![id] =
                          Touch(ApplyUpdates(@, [name |-> body.name,
                                                 description |-> body.description,
                                                 expected_result |-> body.expected_result]))]
       /\ last' = Reply("testStepPut", 200, Absent, req)

TestStepDelete(id) ==
  IF id \notin DOMAIN testSteps \/ testSteps[id].isDeleted
  THEN /\ last' = Reply("testStepDelete", 404, "Test step not found", [id |-> id])
       /\ UNCHANGED testSteps
  ELSE /\ testSteps' = [testSteps EXCEPT ![id] = Touch([@ EXCEPT !.isDeleted = TRUE])]
       /\ last' = Reply("testStepDelete", 200, Absent, [id |-> id])

OtherThanTestSteps ==
  << scope, permissions, roles, users, projects, projectSeq, testPlans, inflight, now >>

InitStores ==
  /\ permissions = EmptyColl
  /\ roles = EmptyColl
  /\ users = EmptyColl
  /\ projects = EmptyColl
  /\ projectSeq = 0
  /\ testPlans = EmptyColl
  /\ testSteps = EmptyColl
  /\ inflight = [s \in 1 .. MaxInflight |-> [op |-> "idle"]]
  /\ now = 0
  /\ last = [op |-> "none", status |-> 0, error |-> Absent]

(***************************************************************************)
(* Workload: the permissions router.                                        *)
(***************************************************************************)
NextPermissions ==
  \/ PermissionCreate
  \/ PermissionUpdate
  \/ PermissionSoftDelete
  \/ PermissionRead
  \/ PermissionListAll

InitPermissions == scope = "permissions" /\ InitStores

SpecPermissions == InitPermissions /\ [][NextPermissions]_vars

(***************************************************************************)
(* Workload: roles and the permissions they list.                           *)
(***************************************************************************)
\* the permissions of seedPermissions.js, posted in their order
SeedPermissionBodies ==
  << [key |-> "vwprj", name |-> "view_projects", description |-> "text"],
     [key |-> "crtpr", name |-> "create_projects", description |-> "text"],
     [key |-> "updpr", name |-> "update_projects", description |-> "text"],
     [key |-> "dltpr", name |-> "delete_projects", description |-> "text"] >>

PermissionSeed ==
  /\ Cardinality(DOMAIN permissions) < Len(SeedPermissionBodies)
  /\ PermissionPost(SeedPermissionBodies[Cardinality(DOMAIN permissions) + 1])
  /\ UNCHANGED OtherThanPermissions

RoleCreate ==
  /\ \E body \in RolePostBodies : RolePost(body)
  /\ UNCHANGED OtherThanRoles

RoleUpdate ==
  /\ \E id \in RefIds, body \in RolePutBodies : RolePut(id, body)
  /\ UNCHANGED OtherThanRoles

RoleSoftDelete ==
  /\ \E id \in RefIds : RoleDelete(id)
  /\ UNCHANGED OtherThanRoles

RoleRead ==
  /\ \E id \in RefIds : RoleGet(id)
  /\ UNCHANGED OtherThanRoles

RoleListAll ==
  /\ \E q \in RoleListQueries : RoleList(q)
  /\ UNCHANGED OtherThanRoles

NextRoles ==
  \/ PermissionSeed
  \/ RoleCreate
  \/ RoleUpdate
  \/ RoleSoftDelete
  \/ RoleRead
  \/ RoleListAll

InitRoles == scope = "roles" /\ InitStores

SpecRoles == InitRoles /\ [][NextRoles]_vars

(***************************************************************************)
(* Workload: the users router.                                              *)
(***************************************************************************)
UserPostBodies ==
  {UserBody(n, e, None, Absent) : n \in UserNames \cup {Absent}, e \in Emails \cup {Absent}}
  \cup {UserBody("Bob", e, l, p) : e \in Emails, l \in RefLists, p \in Providers}

UserPutBodies ==
  {UserBody(n, e, None, p) : n \in UserNames \cup {Absent}, e \in Emails \cup {Absent},
                             p \in Providers \cup {Absent}}
  \cup {UserBody(Absent, Absent, l, Absent) : l \in RefLists}

UserCreate ==
  /\ \E body \in UserPostBodies : UserPost(body)
  /\ UNCHANGED OtherThanUsers

UserUpdate ==
  /\ \E id \in RefIds, body \in UserPutBodies : UserPut(id, body)
  /\ UNCHANGED OtherThanUsers

UserSoftDelete ==
  /\ \E id \in RefIds, undelete \in {Absent, "true"} : UserDelete(id, undelete)
  /\ UNCHANGED OtherThanUsers

UserRead ==
  /\ \E id \in RefIds : UserGet(id)
  /\ UNCHANGED OtherThanUsers

UserListAll ==
  /\ \E q \in UserListQueries : UserList(q)
  /\ UNCHANGED OtherThanUsers

NextUsers ==
  \/ UserCreate
  \/ UserUpdate
  \/ UserSoftDelete
  \/ UserRead
  \/ UserListAll

InitUsers == scope = "users" /\ InitStores

SpecUsers == InitUsers /\ [][NextUsers]_vars

(***************************************************************************)
(* Workload: the projects router.                                           *)
(***************************************************************************)
ProjectBodies ==
  {ProjectBody(n, d) : n \in ProjectNames \cup {Absent}, d \in Descriptions \cup {Absent}}

ProjectCreate ==
  /\ \E body \in ProjectBodies : ProjectPost(body)
  /\ UNCHANGED OtherThanProjects

\* req.body of a PUT: any JSON object, also one that names isDeleted
ProjectPutBodies ==
  ProjectBodies
  \cup {ProjectBody(Absent, Absent) @@ [isDeleted |-> TRUE],
        ProjectBody("Beta", Absent) @@ [isDeleted |-> TRUE]}

ProjectUpdate ==
  /\ \E id \in RefIds, body \in ProjectPutBodies : ProjectPut(id, body)
  /\ UNCHANGED OtherThanProjects

ProjectRemove ==
  /\ \E id \in RefIds : ProjectDelete(id)
  /\ UNCHANGED OtherThanProjects

ProjectRead ==
  /\ \E id \in RefIds : ProjectGet(id)
  /\ UNCHANGED OtherThanProjects

ProjectListAll ==
  /\ \E q \in ProjectListQueries : ProjectList(q)
  /\ UNCHANGED OtherThanProjects

NextProjects ==
  \/ ProjectCreate
  \/ ProjectUpdate
  \/ ProjectRemove
  \/ ProjectRead
  \/ ProjectListAll

InitProjects == scope = "projects" /\ InitStores

SpecProjects == InitProjects /\ [][NextProjects]_vars

(***************************************************************************)
(* Workload: test plans and the projects they name.                         *)
(***************************************************************************)
PlanPostBodies ==
  {PlanBody(n, Absent, i) : n \in {"Smoke", Absent},
                            i \in {None} \cup {Some(i) : i \in RefIds}}
  \cup {PlanBody("Smoke", "text", Some(1))}

PlanPutBodies ==
  {PlanBody(n, Absent, i) : n \in PlanNames \cup {Absent}, i \in {None, Some(1)}}

\* the first project is Alpha, the next ones Beta
ProjectSeed ==
  /\ ProjectPost(ProjectBody(IF projectSeq = 0 THEN "Alpha" ELSE "Beta", Absent))
  /\ UNCHANGED OtherThanProjects

TestPlanCreate ==
  /\ \E body \in PlanPostBodies : TestPlanPost(body)
  /\ UNCHANGED OtherThanTestPlans

TestPlanUpdate ==
  /\ \E id \in RefIds, body \in PlanPutBodies : TestPlanPut(id, body)
  /\ UNCHANGED OtherThanTestPlans

TestPlanSoftDelete ==
  /\ \E id \in RefIds : TestPlanDelete(id)
  /\ UNCHANGED OtherThanTestPlans

TestPlanRead ==
  /\ \E id \in RefIds : TestPlanGet(id)
  /\ UNCHANGED OtherThanTestPlans

TestPlanListAll ==
  /\ \E q \in TestPlanListQueries : TestPlanList(q)
  /\ UNCHANGED OtherThanTestPlans

NextTestPlans ==
  \/ ProjectSeed
  \/ ProjectRemove
  \/ TestPlanCreate
  \/ TestPlanUpdate
  \/ TestPlanSoftDelete
  \/ TestPlanRead
  \/ TestPlanListAll

\* The second module of routes/testPlans.js stores no plan (its POST throws),
\* so the plans the other handlers work on are those the database holds when
\* the server starts, stored by the module's earlier release (lines 1-204).
SeedProjects ==
  (1 :> [name |-> "Alpha", description |-> Absent, isDeleted |-> FALSE, updated |-> 0])
  @@ (2 :> [name |-> "Beta", description |-> Absent, isDeleted |-> FALSE, updated |-> 0])

SeedPlans ==
  UNION {[1 .. n -> [name : PlanNames, description : {Absent}, project_id : {1, 2},
                     isDeleted : {FALSE}, updated : {0}]] : n \in 1 .. MaxDocs}

InitTestPlans ==
  /\ scope = "testPlans"
  /\ permissions = EmptyColl
  /\ roles = EmptyColl
  /\ users = EmptyColl
  /\ testSteps = EmptyColl
  /\ inflight = [s \in 1 .. MaxInflight |-> [op |-> "idle"]]
  /\ now = 0
  /\ last = [op |-> "none", status |-> 0, error |-> Absent]
  /\ \/ projects = EmptyColl /\ projectSeq = 0 /\ testPlans = EmptyColl
     \/ projects = SeedProjects /\ projectSeq = 2 /\ testPlans \in SeedPlans

SpecTestPlans == InitTestPlans /\ [][NextTestPlans]_vars

(***************************************************************************)
(* Workload: the test-steps router.                                         *)
(***************************************************************************)
StepPostBodies ==
  {StepBody(n, Absent, Absent, i) : n \in StepNames \cup {Absent}, i \in {None, Some(1)}}
  \cup {StepBody("Login", "text", "text", Some(MaxDocs + 1))}

StepPutBodies ==
  {StepBody(n, d, d, None) : n \in StepNames \cup {Absent}, d \in Descriptions \cup {Absent}}

TestStepCreate ==
  /\ \E body \in StepPostBodies : TestStepPost(body)
  /\ UNCHANGED OtherThanTestSteps

TestStepUpdate ==
  /\ \E id \in RefIds, body \in StepPutBodies : TestStepPut(id, body)
  /\ UNCHANGED OtherThanTestSteps

TestStepSoftDelete ==
  /\ \E id \in RefIds : TestStepDelete(id)
  /\ UNCHANGED OtherThanTestSteps

TestStepRead ==
  /\ \E id \in RefIds : TestStepGet(id)
  /\ UNCHANGED OtherThanTestSteps

TestStepListAll ==
  /\ \E q \in TestStepListQueries : TestStepList(q)
  /\ UNCHANGED OtherThanTestSteps

NextTestSteps ==
  \/ TestStepCreate
  \/ TestStepUpdate
  \/ TestStepSoftDelete
  \/ TestStepRead
  \/ TestStepListAll

InitTestSteps == scope = "testSteps" /\ InitStores

SpecTestSteps == InitTestSteps /\ [][NextTestSteps]_vars

(***************************************************************************)
(* Workload: reading users that hold roles.  The users router cannot store  *)
(* a non-empty roles list (its reference check throws), so the documents    *)
(* that carry roles are the ones the database already holds when the        *)
(* server starts: the permissions of seedPermissions.js, two roles and one  *)
(* user, with every list of references the schemas allow.                   *)
(***************************************************************************)
SeedPermissions ==
  (1 :> [key |-> "vwprj", name |-> "view_projects", description |-> "text",
         isDeleted |-> FALSE, updated |-> 0])
  @@ (2 :> [key |-> "crtpr", name |-> "create_projects", description |-> "text",
            isDeleted |-> FALSE, updated |-> 0])

SeedRoles(l1, l2) ==
  (1 :> [name |-> "Admin", key |-> "ADMIN", permissions |-> l1, isDeleted |-> FALSE, updated |-> 0])
  @@ (2 :> [name |-> "Viewer", key |-> "VIEWR", permissions |-> l2, isDeleted |-> FALSE, updated |-> 0])

SeedUsers(l) ==
  1 :> [name |-> "Bob", email |-> "bob@x", roles |-> l, provider |-> "local",
        isDeleted |-> FALSE, updated |-> 0]

\* lists of the two stored ids and of one id that names nothing
SeedLists ==
  {l \in SeqsUpTo(1 .. 3, MaxRefs) : \A i \in 1 .. (Len(l) - 1) : l[i] <= l[i + 1]}

InitAccess ==
  /\ scope = "access"
  /\ permissions = SeedPermissions
  /\ \E l1 \in SeedLists, l2 \in SeedLists : roles = SeedRoles(l1, l2)
  /\ \E l \in SeedLists : users = SeedUsers(l)
  /\ projects = EmptyColl
  /\ projectSeq = 0
  /\ testPlans = EmptyColl
  /\ testSteps = EmptyColl
  /\ inflight = [s \in 1 .. MaxInflight |-> [op |-> "idle"]]
  /\ now = 0
  /\ last = [op |-> "none", status |-> 0, error |-> Absent]

RoleGrant ==
  /\ \E id \in DOMAIN roles, l \in {<< >>, << 1 >>, << 1, 2 >>} :
       RolePut(id, RoleBody(Absent, Absent, Absent, Some(l)))
  /\ UNCHANGED OtherThanRoles

NextAccess ==
  \/ RoleGrant
  \/ UserSoftDelete
  \/ UserRead

SpecAccess == InitAccess /\ [][NextAccess]_vars

(***************************************************************************)
(* Workload: creates whose awaits interleave.  A role or user POST awaits   *)
(* its existence check (findOne) and then save(); another request may run   *)
(* between the two.  A slot of `inflight` holds a request that has passed   *)
(* its check and not yet saved.  Permission POST awaits only save().  Each  *)
(* behaviour works on one collection (the unique indexes of the three       *)
(* collections share nothing), named by `scope`.                            *)
(***************************************************************************)
Slots == 1 .. MaxInflight
Idle == [op |-> "idle"]

RaceRoleBodies == {RoleBody(n, k, "text", Some(<< >>)) : n \in RoleNames, k \in RoleKeys}
RaceUserBodies == {UserBody("Bob", e, None, Absent) : e \in Emails}
RacePermissionBodies ==
  {[key |-> k, name |-> n, description |-> "text"] : k \in PermKeys, n \in PermNames}

\* lines 738-755 of the roles router: up to the answer of Role.findOne
RolePostBegin(slot, body) ==
  /\ inflight[slot] = Idle
  /\ last' = RolePostCheck(body)
  /\ inflight' = IF RolePostCheck(body).status = 0
                 THEN [inflight EXCEPT ![slot] = [op |-> "rolePost", body |-> body]]
                 ELSE inflight
  /\ UNCHANGED roles

\* lines 757-764: save() and the reply, or the catch block
RolePostFinish(slot) ==
  /\ inflight[slot].op = "rolePost"
  /\ RolePostSave(inflight[slot].body)
  /\ inflight' = [inflight EXCEPT ![slot] = Idle]

UserPostBegin(slot, body) ==
  /\ inflight[slot] = Idle
  /\ last' = UserPostCheck(body)
  /\ inflight' = IF UserPostCheck(body).status = 0
                 THEN [inflight EXCEPT ![slot] = [op |-> "userPost", body |-> body]]
                 ELSE inflight
  /\ UNCHANGED users

UserPostFinish(slot) ==
  /\ inflight[slot].op = "userPost"
  /\ UserPostSave(inflight[slot].body)
  /\ inflight' = [inflight EXCEPT ![slot] = Idle]

RaceRoleBegin ==
  /\ scope = "roles"
  /\ \E slot \in Slots, body \in RaceRoleBodies : RolePostBegin(slot, body)
  /\ UNCHANGED << scope, permissions, users, projects, projectSeq, testPlans, testSteps, now >>

RaceRoleFinish ==
  /\ \E slot \in Slots : RolePostFinish(slot)
  /\ UNCHANGED << scope, permissions, users, projects, projectSeq, testPlans, testSteps, now >>

RaceRoleUpdate ==
  /\ scope = "roles"
  /\ \E id \in DOMAIN roles,
        body \in {RoleBody(n, Absent, Absent, None) : n \in RoleNames}
                 \cup {RoleBody(Absent, k, Absent, None) : k \in RoleKeys} :
       RolePut(id, body)
  /\ UNCHANGED OtherThanRoles

RaceUserBegin ==
  /\ scope = "users"
  /\ \E slot \in Slots, body \in RaceUserBodies : UserPostBegin(slot, body)
  /\ UNCHANGED << scope, permissions, roles, projects, projectSeq, testPlans, testSteps, now >>

RaceUserFinish ==
  /\ \E slot \in Slots : UserPostFinish(slot)
  /\ UNCHANGED << scope, permissions, roles, projects, projectSeq, testPlans, testSteps, now >>

RaceUserUpdate ==
  /\ scope = "users"
  /\ \E id \in DOMAIN users, e \in Emails : UserPut(id, UserBody(Absent, e, None, Absent))
  /\ UNCHANGED OtherThanUsers

RacePermissionCreate ==
  /\ scope = "permissions"
  /\ \E body \in RacePermissionBodies : PermissionPost(body)
  /\ UNCHANGED OtherThanPermissions

RacePermissionUpdate ==
  /\ scope = "permissions"
  /\ \E id \in DOMAIN permissions,
        body \in {[key |-> k, name |-> Absent, description |-> Absent] : k \in PermKeys}
                 \cup {[key |-> Absent, name |-> n, description |-> Absent] : n \in PermNames} :
       PermissionPut(id, body)
  /\ UNCHANGED OtherThanPermissions

NextRaces ==
  \/ RaceRoleBegin
  \/ RaceRoleFinish
  \/ RaceRoleUpdate
  \/ RaceUserBegin
  \/ RaceUserFinish
  \/ RaceUserUpdate
  \/ RacePermissionCreate
  \/ RacePermissionUpdate

InitRaces == scope \in {"permissions", "roles", "users"} /\ InitStores

SpecRaces == InitRaces /\ [][NextRaces]_vars

(***************************************************************************)
(* Workload: the five paginated list endpoints, one router per behaviour.   *)
(***************************************************************************)
InitLists ==
  \/ InitPermissions
  \/ InitUsers
  \/ InitProjects
  \/ InitTestPlans
  \/ InitTestSteps

SeedEmails == << "bob@x", "eve@x", "kim@x", "lee@x" >>

UserSeed ==
  /\ Cardinality(DOMAIN users) < Len(SeedEmails)
  /\ UserPost(UserBody("Bob", SeedEmails[Cardinality(DOMAIN users) + 1], None, Absent))
  /\ UNCHANGED OtherThanUsers

TestStepSeed ==
  /\ TestStepPost(StepBody(IF Cardinality(DOMAIN testSteps) = 0 THEN "Login" ELSE "Logout",
                           Absent, Absent, Some(1)))
  /\ UNCHANGED OtherThanTestSteps

ListPermissions ==
  /\ scope = "permissions"
  /\ (PermissionSeed \/ PermissionSoftDelete \/ PermissionListAll)

ListUsers ==
  /\ scope = "users"
  /\ (UserSeed \/ UserSoftDelete \/ UserListAll)

ProjectSearchAll ==
  /\ \E q \in SearchBodies : ProjectSearch(q)
  /\ UNCHANGED OtherThanProjects

ListProjects ==
  /\ scope = "projects"
  /\ (ProjectSeed \/ ProjectRemove \/ ProjectListAll \/ ProjectSearchAll)

ListTestPlans ==
  /\ scope = "testPlans"
  /\ (TestPlanCreate \/ TestPlanSoftDelete \/ TestPlanListAll)

ListTestSteps ==
  /\ scope = "testSteps"
  /\ (TestStepSeed \/ TestStepSoftDelete \/ TestStepListAll)

NextLists ==
  \/ ListPermissions
  \/ ListUsers
  \/ ListProjects
  \/ ListTestPlans
  \/ ListTestSteps

SpecLists == InitLists /\ [][NextLists]_vars

(***************************************************************************)
(* How a reply is read.  The handlers answer 400 both for a failed          *)
(* validation and for a uniqueness conflict, and 500 from their catch-all.  *)
(***************************************************************************)
ConflictMessages ==
  {"Permission key and name must be unique", "Duplicate key or name",
   "Role name or key already exists", "Role name or key must be unique",
   "Email already exists"}

IsServerError(r) == r.status = 500
IsConflictError(r) == r.status = 400 /\ r.error \in ConflictMessages
IsValidationError(r) == r.status = 400 /\ r.error \notin ConflictMessages

PagedLists == {"permissionList", "userList", "projectList", "testPlanList", "testStepList"}

\* the collection a list reply was read from, and whether the call hid the
\* soft-deleted documents
ListedColl(r) ==
  CASE r.op = "permissionList" -> permissions
    [] r.op = "userList" -> users
    [] r.op \in {"projectList", "projectSearch"} -> projects
    [] r.op = "testPlanList" -> testPlans
    [] r.op = "testStepList" -> testSteps
    [] r.op = "roleList" -> roles

HidesDeleted(r) ==
  CASE r.op = "permissionList" -> ~Truthy(r.req.deleted)
    [] r.op \in {"projectList", "projectSearch", "roleList"} -> FALSE
    [] OTHER -> TRUE

NoRepeats(s) == \A i, j \in 1 .. Len(s) : s[i] = s[j] => i = j

KeysOfRole(r) ==
  {permissions[p].key : p \in Range(roles[r].permissions) \cap DOMAIN permissions}

KeysOfUser(u) ==
  UNION {KeysOfRole(r) : r \in Range(users[u].roles) \cap DOMAIN roles}

(***************************************************************************)
(* C1: reading a user by id returns effectivePermissions that, as a set,    *)
(* is the union of the keys of the stored permissions of the user's stored  *)
(* roles, each key once; a user without roles gets the empty list and a     *)
(* 200 reply.                                                               *)
(***************************************************************************)
C1_EffectivePermissionsAreTheUnion ==
  (last.op = "userGet" /\ last.req.id \in DOMAIN users) =>
     /\ last.status = 200
     /\ Range(last.effectivePermissions) = KeysOfUser(last.req.id)
     /\ NoRepeats(last.effectivePermissions)
     /\ (users[last.req.id].roles = << >> => last.effectivePermissions = << >>)

\* a user holding two roles that both grant the same permission, next to
\* another one
C1_Witness ==
  /\ last.op = "userGet"
  /\ last.status = 200
  /\ users[last.req.id].roles = << 1, 2 >>
  /\ roles[1].permissions = << 1, 2 >>
  /\ roles[2].permissions = << 2 >>
  /\ Len(last.effectivePermissions) = 2

Min(a, b) == IF a < b THEN a ELSE b
Max(a, b) == IF a > b THEN a ELSE b

(***************************************************************************)
(* C2: a paginated list call with page >= 1 and limit >= 1 returns          *)
(* min(limit, max(0, total - (page-1)*limit)) items, total being the number *)
(* of documents that match the call's filter.                               *)
(***************************************************************************)
C2_PageHoldsTheWindow ==
  (last.op \in PagedLists /\ last.status = 200 /\ last.page >= 1 /\ last.limit >= 1) =>
     /\ last.total = Cardinality(Matching(ListedColl(last), last.req.filter,
                                          HidesDeleted(last)))
     /\ Len(last.items) = Min(last.limit,
                              Max(0, last.total - (last.page - 1) * last.limit))
     /\ NoRepeats(last.items)
     /\ Range(last.items) \subseteq Matching(ListedColl(last), last.req.filter,
                                             HidesDeleted(last))

\* the last, partly filled page of a collection
C2_Witness ==
  /\ last.op \in PagedLists
  /\ last.status = 200
  /\ last.page = 2
  /\ last.limit = 1
  /\ last.total = 2
  /\ Len(last.items) = 1

(***************************************************************************)
(* C3: with limit >= 1, totalPages is ceil(total / limit): the least number *)
(* of pages of `limit` items that hold `total` items; it is 0 exactly when  *)
(* total is 0.                                                              *)
(***************************************************************************)
C3_TotalPagesIsTheCeiling ==
  (last.op \in PagedLists /\ last.status = 200 /\ last.limit >= 1) =>
     /\ last.totalPages * last.limit >= last.total
     /\ (last.totalPages - 1) * last.limit < last.total
     /\ (last.totalPages = 0 <=> last.total = 0)

\* a total that the limit does not divide
C3_Witness ==
  /\ last.op \in PagedLists
  /\ last.status = 200
  /\ last.total > 0
  /\ last.total % last.limit # 0
  /\ last.totalPages = (last.total \div last.limit) + 1

DefaultQuery == Query(None, None, None, Absent, NoFilter, Absent)

\* documents created so far, and those among them deleted since
CreatedIn(r) ==
  IF r.op = "projectList" THEN projectSeq ELSE Cardinality(DOMAIN ListedColl(r))

DeletedIn(r) ==
  IF r.op = "projectList"
  THEN projectSeq - Cardinality(DOMAIN projects)
  ELSE Cardinality({i \in DOMAIN ListedColl(r) : ListedColl(r)[i].isDeleted})

Reported(r) == IF r.op = "roleList" THEN Len(r.items) ELSE r.total

(***************************************************************************)
(* C4: for each entity type with a list endpoint, after N creates in an     *)
(* empty collection and M deletes through the delete endpoint, the list     *)
(* call with default visibility and no filter reports N - M documents (the  *)
(* total, or the length of a bare array) and holds no document whose        *)
(* isDeleted is true.                                                       *)
(***************************************************************************)
C4_DeletedDocumentsLeaveTheList ==
  (last.op \in PagedLists \cup {"roleList"} /\ last.req = DefaultQuery) =>
     /\ Reported(last) = CreatedIn(last) - DeletedIn(last)
     /\ \A i \in Range(last.items) : ~ListedColl(last)[i].isDeleted

HoldersOf(coll, field, value) == {i \in DOMAIN coll : coll[i][field] = value}

(***************************************************************************)
(* C5: creating a Permission whose key an existing Permission already has   *)
(* is refused as a conflict (a 400 reply, never the generic 500), and the   *)
(* collection still holds exactly one document with that key; the same for  *)
(* a name that is already taken.                                            *)
(***************************************************************************)
C5_DuplicatePermissionIsAConflict ==
  [][\A field \in {"key", "name"} :
       (/\ last'.op = "permissionPost"
        /\ Truthy(last'.req[field])
        /\ HoldersOf(permissions, field, last'.req[field]) # {})
       => /\ last'.status = 400
          /\ ~IsServerError(last')
          /\ Cardinality(HoldersOf(permissions', field, last'.req[field])) = 1
    ]_vars

(***************************************************************************)
(* C6: creating a TestPlan whose project_id names no stored Project fails   *)
(* with a validation error, not a generic server error, and leaves the      *)
(* TestPlan collection unchanged.                                           *)
(***************************************************************************)
C6_UnknownProjectIsAValidationError ==
  [][(/\ last'.op = "testPlanPost"
      /\ IsSome(last'.req.project_id)
      /\ Get(last'.req.project_id) \notin DOMAIN projects)
     => (IsValidationError(last') /\ testPlans' = testPlans)]_vars

PlanOfExistingProject(r) ==
  /\ r.op = "testPlanPost"
  /\ Truthy(r.req.name)
  /\ IsSome(r.req.project_id)
  /\ Get(r.req.project_id) \in DOMAIN projects

(***************************************************************************)
(* C7: from empty collections, creating a Project and then a TestPlan with  *)
(* a name and that project's id succeeds and stores the plan; the list of   *)
(* test plans with default pagination then returns total 1, page 1,         *)
(* totalPages 1 and that plan with its project expanded.                    *)
(***************************************************************************)
C7_PlanOfAProjectIsStoredAndListed ==
  [][/\ PlanOfExistingProject(last') =>
          /\ last'.status = 201
          /\ \E i \in DOMAIN testPlans' \ DOMAIN testPlans :
               /\ testPlans'[i].name = last'.req.name
               /\ testPlans'[i].project_id = Get(last'.req.project_id)
     /\ (/\ last'.op = "testPlanList"
         /\ last'.req = DefaultQuery
         /\ Cardinality(DOMAIN testPlans) = 1
         /\ \A i \in DOMAIN testPlans :
              ~testPlans[i].isDeleted /\ testPlans[i].project_id \in DOMAIN projects) =>
          /\ last'.total = 1 /\ last'.page = 1 /\ last'.totalPages = 1
          /\ Len(last'.items) = 1
          /\ last'.expanded[1] =
               Some([name |-> projects[testPlans[last'.items[1]].project_id].name,
                     description |->
                       projects[testPlans[last'.items[1]].project_id].description])
    ]_vars

Unique(coll, field) ==
  \A i, j \in DOMAIN coll : coll[i][field] = coll[j][field] => i = j

(***************************************************************************)
(* C8: in every reachable state, whatever creates and updates ran and       *)
(* however they interleaved, no two Permissions share a key or a name, no   *)
(* two Roles share a name or a key, and no two Users share an email.        *)
(***************************************************************************)
C8_UniqueFieldsStayUnique ==
  /\ Unique(permissions, "key")
  /\ Unique(permissions, "name")
  /\ Unique(roles, "name")
  /\ Unique(roles, "key")
  /\ Unique(users, "email")

\* two creates of one role passed the existence check together; the second
\* save was refused by the index
C8_Witness ==
  /\ last.op = "rolePost"
  /\ last.error = "E11000 duplicate key error"
  /\ \E i \in DOMAIN roles : roles[i].name = last.req.name /\ roles[i].key = last.req.key
  /\ Cardinality(DOMAIN roles) = 2

\* the save of a checked request meets a stored document with its value
LosesTheRace(f) ==
  \/ /\ f.op = "rolePost"
     /\ \E i \in DOMAIN roles : roles[i].name = f.body.name \/ roles[i].key = f.body.key
  \/ /\ f.op = "userPost"
     /\ \E i \in DOMAIN users : users[i].email = f.body.email

(***************************************************************************)
(* C9: when two creates with the same unique value both pass the handler's  *)
(* existence check, one insert succeeds and the other request ends with a   *)
(* conflict error, not with the generic server error.                       *)
(***************************************************************************)
C9_RaceLoserGetsAConflict ==
  [][/\ \A slot \in Slots :
          (inflight[slot] # Idle /\ inflight'[slot] = Idle /\ LosesTheRace(inflight[slot]))
          => (IsConflictError(last') /\ ~IsServerError(last')
              /\ roles' = roles /\ users' = users)
     /\ (/\ last'.op = "permissionPost"
         /\ Truthy(last'.req.key) /\ Truthy(last'.req.name)
         /\ Truthy(last'.req.description)
         /\ \E i \in DOMAIN permissions :
              permissions[i].key = last'.req.key \/ permissions[i].name = last'.req.name)
        => (IsConflictError(last') /\ permissions' = permissions)
    ]_vars

HasUnknownId(list, coll) == IsSome(list) /\ \E i \in Range(Get(list)) : i \notin DOMAIN coll

RoleReferencesChecked ==
  /\ (last'.op = "rolePost" /\ HasUnknownId(last'.req.permissions, permissions))
       => (last'.status = 400 /\ roles' = roles)
  /\ (last'.op = "rolePut" /\ HasUnknownId(last'.req.body.permissions, permissions))
       => (last'.status = 400 /\ roles' = roles)

UserReferencesChecked ==
  /\ (last'.op = "userPost" /\ HasUnknownId(last'.req.roles, roles))
       => (last'.status = 400 /\ users' = users)
  /\ (last'.op = "userPut" /\ HasUnknownId(last'.req.body.roles, roles))
       => (last'.status = 400 /\ users' = users)

(***************************************************************************)
(* C10: a Role create or update with a permissions list, or a User create   *)
(* or update with a roles list, in which some id names no stored document   *)
(* is rejected as a bad request, and the Role or User collection is left    *)
(* exactly as it was.                                                       *)
(***************************************************************************)
C10_UnknownReferencesAreRejected ==
  [][RoleReferencesChecked /\ UserReferencesChecked]_vars

\* the half of C10 that the roles router keeps
RoleReferencesAreChecked == [][RoleReferencesChecked]_vars

(***************************************************************************)
(* Workload: roles that list permissions which are soft-deleted meanwhile.  *)
(***************************************************************************)
InitReferences == scope = "references" /\ InitStores

NextReferences ==
  \/ PermissionSeed
  \/ PermissionSoftDelete
  \/ RoleCreate
  \/ RoleGrant

SpecReferences == InitReferences /\ [][NextReferences]_vars

\* the list names a stored document whose isDeleted is true
NamesDeleted(list, coll) ==
  IsSome(list) /\ \E i \in Range(Get(list)) \cap DOMAIN coll : coll[i].isDeleted

(***************************************************************************)
(* C11: a create or update that references a soft-deleted document (a Role  *)
(* naming a soft-deleted Permission, a User naming a soft-deleted Role, a   *)
(* TestPlan naming a soft-deleted Project) is rejected with a validation    *)
(* error and writes nothing.                                                *)
(***************************************************************************)
C11_DeletedReferencesAreRejected ==
  [][/\ (last'.op = "rolePost" /\ NamesDeleted(last'.req.permissions, permissions))
          => (IsValidationError(last') /\ roles' = roles)
     /\ (last'.op = "rolePut" /\ NamesDeleted(last'.req.body.permissions, permissions))
          => (IsValidationError(last') /\ roles' = roles)
     /\ (last'.op = "userPost" /\ NamesDeleted(last'.req.roles, roles))
          => (IsValidationError(last') /\ users' = users)
     /\ (last'.op = "userPut" /\ NamesDeleted(last'.req.body.roles, roles))
          => (IsValidationError(last') /\ users' = users)
     /\ (last'.op = "testPlanPost"
         /\ NamesDeleted(IF IsSome(last'.req.project_id)
                         THEN Some(<< Get(last'.req.project_id) >>) ELSE None, projects))
          => (IsValidationError(last') /\ testPlans' = testPlans)
    ]_vars

(***************************************************************************)
(* C12: creating a TestStep whose test_plan_id is the id of no stored test  *)
(* plan, and updating a TestPlan with a project_id that is the id of no     *)
(* stored project, each fail with a validation error and leave the stored   *)
(* documents unchanged.                                                     *)
(***************************************************************************)
C12_UnknownParentIsAValidationError ==
  [][/\ (/\ last'.op = "testStepPost"
         /\ IsSome(last'.req.test_plan_id)
         /\ Get(last'.req.test_plan_id) \notin DOMAIN testPlans)
          => (IsValidationError(last') /\ testSteps' = testSteps)
     /\ (/\ last'.op = "testPlanPut"
         /\ last'.req.id \in DOMAIN testPlans
         /\ IsSome(last'.req.body.project_id)
         /\ Get(last'.req.body.project_id) \notin DOMAIN projects)
          => (IsValidationError(last') /\ testPlans' = testPlans)
    ]_vars

(***************************************************************************)
(* C13: no API operation removes a document: for every entity type the set  *)
(* of stored ids never shrinks, and a delete request only sets isDeleted    *)
(* to true.                                                                 *)
(***************************************************************************)
C13_NoDocumentIsRemoved ==
  [][/\ DOMAIN permissions \subseteq DOMAIN permissions'
     /\ DOMAIN roles \subseteq DOMAIN roles'
     /\ DOMAIN users \subseteq DOMAIN users'
     /\ DOMAIN projects \subseteq DOMAIN projects'
     /\ DOMAIN testPlans \subseteq DOMAIN testPlans'
     /\ DOMAIN testSteps \subseteq DOMAIN testSteps'
     /\ (last'.op = "projectDelete" /\ last'.status = 200)
          => (/\ last'.req.id \in DOMAIN projects'
              /\ projects'[last'.req.id].isDeleted)
    ]_vars

(***************************************************************************)
(* Workload: the mutating requests of every router while the clock runs.    *)
(***************************************************************************)
\* time passes between two requests
Tick ==
  /\ now < MaxClock
  /\ now' = now + 1
  /\ UNCHANGED << scope, permissions, roles, users, projects, projectSeq, testPlans,
                  testSteps, inflight, last >>

ClockPermissions ==
  /\ scope = "permissions"
  /\ (PermissionCreate \/ PermissionUpdate \/ PermissionSoftDelete)

ClockRoles ==
  /\ scope = "roles"
  /\ (RoleCreate \/ RoleUpdate \/ RoleSoftDelete)

ClockUsers ==
  /\ scope = "users"
  /\ (UserCreate \/ UserUpdate \/ UserSoftDelete)

ClockProjects ==
  /\ scope = "projects"
  /\ (ProjectCreate \/ ProjectUpdate \/ ProjectRemove)

ClockTestPlans ==
  /\ scope = "testPlans"
  /\ (TestPlanUpdate \/ TestPlanSoftDelete)

ClockTestSteps ==
  /\ scope = "testSteps"
  /\ (TestStepCreate \/ TestStepUpdate \/ TestStepSoftDelete)

InitClock ==
  \/ InitPermissions
  \/ InitRoles
  \/ InitUsers
  \/ InitProjects
  \/ InitTestPlans
  \/ InitTestSteps

NextClock ==
  \/ Tick
  \/ ClockPermissions
  \/ ClockRoles
  \/ ClockUsers
  \/ ClockProjects
  \/ ClockTestPlans
  \/ ClockTestSteps

SpecClock == InitClock /\ [][NextClock]_vars

CreateOps ==
  {"permissionPost", "rolePost", "userPost", "projectPost", "testPlanPost", "testStepPost"}

UpdateOps ==
  {"permissionPut", "rolePut", "userPut", "projectPut", "testPlanPut", "testStepPut"}

SoftDeleteOps ==
  {"permissionDelete", "roleDelete", "userDelete", "testPlanDelete", "testStepDelete"}

Succeeded(r) == r.status \in {200, 201}

\* the collection a request works on
StoreOf(op) ==
  CASE op \in {"permissionPost", "permissionPut", "permissionDelete", "permissionGet"}
         -> permissions
    [] op \in {"rolePost", "rolePut", "roleDelete", "roleGet"} -> roles
    [] op \in {"userPost", "userPut", "userDelete", "userGet"} -> users
    [] op \in {"projectPost", "projectPut", "projectDelete", "projectGet"} -> projects
    [] op \in {"testPlanPost", "testPlanPut", "testPlanDelete", "testPlanGet"} -> testPlans
    [] op \in {"testStepPost", "testStepPut", "testStepDelete", "testStepGet"} -> testSteps

\* the id of the document a request names or creates
TargetOf(r) == IF r.op \in CreateOps THEN r.id ELSE r.req.id

\* the stored document the last request wrote
Written == StoreOf(last.op)[TargetOf(last)]

(***************************************************************************)
(* C14: every successful mutating request (create, partial update, soft     *)
(* delete, undelete) sets the updated timestamp the document's schema       *)
(* declares to the time of the write.                                       *)
(***************************************************************************)
C14_WritesRefreshTheTimestamp ==
  [][(/\ now' = now
      /\ last'.op \in CreateOps \cup UpdateOps \cup SoftDeleteOps
      /\ Succeeded(last'))
       => (Written.updated = now)'
    ]_vars

\* the fields of the handler's list that the request body supplies
Supplied(body, strs, opts) ==
  {f \in strs : Truthy(body[f])} \cup {f \in opts : IsSome(body[f])}

\* from `coll` to `after`, request r changed nothing but the supplied fields
\* and the timestamp of the document it names
OnlySuppliedChanged(coll, after, r, strs, opts) ==
  /\ DOMAIN after = DOMAIN coll
  /\ \A i \in DOMAIN coll : \A f \in DOMAIN coll[i] :
       \/ after[i][f] = coll[i][f]
       \/ i = r.req.id /\ f \in Supplied(r.req.body, strs, opts) \cup {"updated"}

(***************************************************************************)
(* C15: a successful partial update changes only the updatable fields the   *)
(* request supplies and the updated timestamp; every other field of the     *)
(* document (id, isDeleted, unsupplied fields) and every other document is  *)
(* unchanged, for every entity type and any request body.                   *)
(***************************************************************************)
C15_UpdateChangesOnlySuppliedFields ==
  [][/\ (last'.op = "permissionPut" /\ Succeeded(last'))
          => OnlySuppliedChanged(permissions, permissions', last',
                                 {"key", "name", "description"}, {})
     /\ (last'.op = "rolePut" /\ Succeeded(last'))
          => OnlySuppliedChanged(roles, roles', last',
                                 {"name", "key", "description"}, {"permissions"})
     /\ (last'.op = "userPut" /\ Succeeded(last'))
          => OnlySuppliedChanged(users, users', last',
                                 {"name", "email", "provider"}, {"roles"})
     /\ (last'.op = "projectPut" /\ Succeeded(last'))
          => OnlySuppliedChanged(projects, projects', last', {"name", "description"}, {})
     /\ (last'.op = "testPlanPut" /\ Succeeded(last'))
          => OnlySuppliedChanged(testPlans, testPlans', last',
                                 {"name", "description"}, {"project_id"})
     /\ (last'.op = "testStepPut" /\ Succeeded(last'))
          => OnlySuppliedChanged(testSteps, testSteps', last',
                                 {"name", "description", "expected_result"}, {})
    ]_vars

\* the request supplies none of the fields the handler can update
SuppliesNothing(r, strs, opts) == Supplied(r.req.body, strs, opts) = {}

(***************************************************************************)
(* C16: an update request for a stored document that supplies none of the   *)
(* updatable fields is rejected with a validation error and leaves the      *)
(* document, its timestamp included, unchanged, for every entity type.      *)
(***************************************************************************)
C16_EmptyUpdateIsRejected ==
  [][/\ (last'.op = "permissionPut" /\ last'.req.id \in DOMAIN permissions
         /\ SuppliesNothing(last', {"key", "name", "description"}, {}))
          => (IsValidationError(last') /\ permissions' = permissions)
     /\ (last'.op = "rolePut" /\ last'.req.id \in DOMAIN roles
         /\ SuppliesNothing(last', {"name", "key", "description"}, {"permissions"}))
          => (IsValidationError(last') /\ roles' = roles)
     /\ (last'.op = "userPut" /\ last'.req.id \in DOMAIN users
         /\ SuppliesNothing(last', {"name", "email", "provider"}, {"roles"}))
          => (IsValidationError(last') /\ users' = users)
     /\ (last'.op = "projectPut" /\ last'.req.id \in DOMAIN projects
         /\ SuppliesNothing(last', {"name", "description"}, {}))
          => (IsValidationError(last') /\ projects' = projects)
     /\ (last'.op = "testPlanPut" /\ last'.req.id \in DOMAIN testPlans
         /\ SuppliesNothing(last', {"name", "description"}, {"project_id"}))
          => (IsValidationError(last') /\ testPlans' = testPlans)
     /\ (last'.op = "testStepPut" /\ last'.req.id \in DOMAIN testSteps
         /\ SuppliesNothing(last', {"name", "description", "expected_result"}, {}))
          => (IsValidationError(last') /\ testSteps' = testSteps)
    ]_vars

ReadOps ==
  {"permissionGet", "roleGet", "userGet", "projectGet", "testPlanGet", "testStepGet"}

\* the last request read by id a stored document whose isDeleted is true
ReadOfDeleted ==
  /\ last.op \in ReadOps
  /\ last.req.id \in DOMAIN StoreOf(last.op)
  /\ StoreOf(last.op)[last.req.id].isDeleted

(***************************************************************************)
(* C17: for every entity type, a read by id of a soft-deleted document      *)
(* answers NotFound and never returns the document.                         *)
(***************************************************************************)
C17_DeletedDocumentIsNotFound ==
  ReadOfDeleted => (last.status = 404 /\ "doc" \notin DOMAIN last)

\* writing `value` to `field` of the document the request names would give two
\* stored documents the same value
TakesHeldValue(coll, r, field) ==
  /\ r.req.id \in DOMAIN coll
  /\ Truthy(r.req.body[field])
  /\ \E i \in DOMAIN coll : i # r.req.id /\ coll[i][field] = r.req.body[field]

(***************************************************************************)
(* C18: an update that would set a Role's name or key, a Permission's key   *)
(* or name, or a User's email to a value held by a different stored         *)
(* document fails with a conflict error, distinct from the generic server   *)
(* error, and leaves both documents unchanged.                              *)
(***************************************************************************)
C18_UpdateToHeldValueIsAConflict ==
  [][/\ (/\ last'.op = "permissionPut"
         /\ \E f \in {"key", "name"} : TakesHeldValue(permissions, last', f))
          => (IsConflictError(last') /\ permissions' = permissions)
     /\ (/\ last'.op = "rolePut"
         /\ \E f \in {"name", "key"} : TakesHeldValue(roles, last', f))
          => (IsConflictError(last') /\ roles' = roles)
     /\ (last'.op = "userPut" /\ TakesHeldValue(users, last', "email"))
          => (IsConflictError(last') /\ users' = users)
    ]_vars

\* the last request created a project from a name and a description
CreatedProject ==
  /\ last.op = "projectPost"
  /\ Truthy(last.req.name)
  /\ Truthy(last.req.description)

(***************************************************************************)
(* C19: creating a project with a name and a description succeeds with      *)
(* status 201, stores exactly one new document, whose server-assigned _id   *)
(* differs from every id stored before, and returns that document with the  *)
(* name and description of the request.                                     *)
(***************************************************************************)
C19_ProjectIsCreated ==
  [][CreatedProject' =>
       /\ last'.status = 201
       /\ last'.id \notin DOMAIN projects
       /\ DOMAIN projects' = DOMAIN projects \cup {last'.id}
       /\ \A i \in DOMAIN projects : projects'[i] = projects[i]
       /\ projects'[last'.id].name = last'.req.name
       /\ projects'[last'.id].description = last'.req.description
       /\ ~projects'[last'.id].isDeleted
       /\ last'.doc.name = last'.req.name
       /\ last'.doc.description = last'.req.description
    ]_vars

\* a project was created beside one that was already stored
C19_Witness ==
  /\ CreatedProject
  /\ last.status = 201
  /\ last.id \in DOMAIN projects
  /\ projects[last.id].description = "text"
  /\ Cardinality(DOMAIN projects) = 2

BodyIsArray(r) == "items" \in DOMAIN r /\ "total" \notin DOMAIN r

(***************************************************************************)
(* C21: listing projects with no query parameters answers 200 with a body   *)
(* that is an array holding every stored project: its length is the number  *)
(* of stored projects and its elements carry the stored names.              *)
(***************************************************************************)
C21_ProjectListIsTheArrayOfAll ==
  (last.op = "projectList" /\ last.req = DefaultQuery) =>
     /\ last.status = 200
     /\ BodyIsArray(last)
     /\ Len(last.items) = Cardinality(DOMAIN projects)
     /\ Range(last.items) = DOMAIN projects

\* every call that takes a page number
WindowedLists == PagedLists \cup {"projectSearch"}

\* the request asks for an unsorted page whose number is below 1
AsksPageBelowOne(r) ==
  /\ r.op \in WindowedLists
  /\ IsSome(r.req.page)
  /\ Get(r.req.page) < 1
  /\ r.req.sortBy = None

\* the ids of page 1 of the call: the first `limit` matching documents
PageOne(r) ==
  Limit(SortIds(ListedColl(r),
                Matching(ListedColl(r), r.req.filter, HidesDeleted(r)), None, 1),
        OrDefault(r.req.limit, LimitDefault))

(***************************************************************************)
(* C22: for every paginated list call, a page number below 1 (0 or          *)
(* negative) is treated as page 1: the skip is 0 and the items returned are *)
(* those of page 1.                                                         *)
(***************************************************************************)
C22_PageBelowOneIsPageOne ==
  AsksPageBelowOne(last) =>
     /\ last.status = 200
     /\ last.page = 1
     /\ last.items = PageOne(last)

\* the last reply is the first page of a list sorted on a requested field
SortedList(r) ==
  /\ r.op \in WindowedLists \cup {"roleList"}
  /\ r.status = 200
  /\ IsSome(r.req.sortBy)
  /\ r.req.page = None

\* the matching documents in the order the request asks for: descending for
\* order 'desc', ascending otherwise
InRequestedOrder(r) ==
  Limit(SortIds(ListedColl(r),
                Matching(ListedColl(r), r.req.filter, HidesDeleted(r)),
                r.req.sortBy, IF r.req.order = "desc" THEN -1 ELSE 1),
        OrDefault(r.req.limit, LimitDefault))

(***************************************************************************)
(* C23: for every list endpoint, the items are sorted on the requested sort *)
(* field in descending order if and only if the order parameter equals      *)
(* 'desc'; for every other value of order, an absent one included, the sort *)
(* is ascending.                                                            *)
(***************************************************************************)
C23_DescendingOnlyForDesc ==
  SortedList(last) => last.items = InRequestedOrder(last)

\* the include-deleted flag of the request, read as the boolean it stands for
IncludeDeleted(r) == r.req.deleted = "true"

(***************************************************************************)
(* C24: the permissions list excludes the soft-deleted permissions whenever *)
(* the include-deleted flag is false, whether it is absent or sent as the   *)
(* string 'false', and includes them only when the flag is true.            *)
(***************************************************************************)
C24_DeletedFlagFalseHidesDeleted ==
  (last.op = "permissionList" /\ last.status = 200) =>
     /\ last.total = Cardinality(Matching(permissions, last.req.filter,
                                          ~IncludeDeleted(last)))
     /\ ~IncludeDeleted(last) => \A i \in Range(last.items) : ~permissions[i].isDeleted

(***************************************************************************)
(* Workload: soft-deleting the roles and permissions a stored user holds,   *)
(* and reading the user.                                                    *)
(***************************************************************************)
RevokeLists == {<< 1 >>, << 2 >>, << 1, 2 >>}

InitRevoke ==
  /\ scope = "revoke"
  /\ permissions = SeedPermissions
  /\ \E l1 \in RevokeLists, l2 \in RevokeLists : roles = SeedRoles(l1, l2)
  /\ \E l \in RevokeLists : users = SeedUsers(l)
  /\ projects = EmptyColl
  /\ projectSeq = 0
  /\ testPlans = EmptyColl
  /\ testSteps = EmptyColl
  /\ inflight = [s \in 1 .. MaxInflight |-> [op |-> "idle"]]
  /\ now = 0
  /\ last = [op |-> "none", status |-> 0, error |-> Absent]

NextRevoke ==
  \/ RoleSoftDelete
  \/ PermissionSoftDelete
  \/ UserRead

SpecRevoke == InitRevoke /\ [][NextRevoke]_vars

\* the keys a user reaches through stored roles and permissions, deleted or not
ReachableKeys(u) ==
  {permissions[p].key :
     p \in UNION {Range(roles[r].permissions) \cap DOMAIN permissions :
                    r \in Range(users[u].roles) \cap DOMAIN roles}}

(***************************************************************************)
(* C25: soft-deleting a Role or a Permission does not change any user's     *)
(* effective permissions: right after the delete every user still has the   *)
(* keys of all its stored roles and permissions, and a key reachable only   *)
(* through a soft-deleted Role, or belonging to a soft-deleted Permission,  *)
(* is still in the effectivePermissions returned when the user is read.     *)
(***************************************************************************)
C25_SoftDeleteKeepsEffectivePermissions ==
  /\ (last.op \in {"roleDelete", "permissionDelete"} /\ last.status = 200)
       => \A u \in DOMAIN users :
            ReachableKeys(u) = Range(EffectivePermissions(users[u]))
  /\ (last.op = "userGet" /\ last.status = 200)
       => ReachableKeys(last.req.id) \subseteq Range(last.effectivePermissions)

\* a user read after one of its roles and one of that role's permissions
\* were soft-deleted, with the key of that permission in the reply
C25_Witness ==
  /\ last.op = "userGet"
  /\ last.status = 200
  /\ \E r \in Range(users[last.req.id].roles) :
       /\ roles[r].isDeleted
       /\ \E p \in Range(roles[r].permissions) :
            /\ permissions[p].isDeleted
            /\ permissions[p].key \in Range(last.effectivePermissions)
            /\ \A q \in Range(users[last.req.id].roles) \ {r} :
                 p \notin Range(roles[q].permissions)

(***************************************************************************)
(* Workload: deleting and undeleting users, and the user list.              *)
(***************************************************************************)
\* ?undelete= is free text: absent, 'true', or another word
UndeleteParams == {Absent, "true", "false"}

UserToggle ==
  /\ \E id \in RefIds, undelete \in UndeleteParams : UserDelete(id, undelete)
  /\ UNCHANGED OtherThanUsers

InitToggle == scope = "toggle" /\ InitStores

NextToggle ==
  \/ UserSeed
  \/ UserToggle
  \/ UserListAll

SpecToggle == InitToggle /\ [][NextToggle]_vars

(***************************************************************************)
(* C26: the user delete endpoint is a guarded toggle.  Without              *)
(* undelete=true it sets isDeleted to true only on a user that is not       *)
(* deleted, and answers NotFound, changing nothing, on one already deleted; *)
(* with undelete=true it sets isDeleted to false only on a deleted user,    *)
(* and answers NotFound, changing nothing, on one that is not deleted.  The *)
(* default user list holds exactly the users that are not deleted, so a     *)
(* user deleted and then undeleted is listed again.                         *)
(***************************************************************************)
C26_UserDeleteIsAGuardedToggle ==
  [][/\ (last'.op = "userDelete" /\ last'.req.id \in DOMAIN users) =>
          IF users[last'.req.id].isDeleted = (last'.req.undelete = "true")
          THEN /\ last'.status = 200
               /\ DOMAIN users' = DOMAIN users
               /\ users'[last'.req.id].isDeleted = ~users[last'.req.id].isDeleted
               /\ \A i \in DOMAIN users \ {last'.req.id} : users'[i] = users[i]
          ELSE /\ last'.status = 404
               /\ users' = users
     /\ (last'.op = "userDelete" /\ last'.req.id \notin DOMAIN users) =>
          (last'.status = 404 /\ users' = users)
     /\ (last'.op = "userList" /\ last'.req = DefaultQuery) =>
          /\ last'.status = 200
          /\ Range(last'.items) = {i \in DOMAIN users' : ~users'[i].isDeleted}
    ]_vars

\* an undelete succeeded: the user was created, deleted, and is live again
C26_Witness ==
  /\ last.op = "userDelete"
  /\ last.req.undelete = "true"
  /\ last.status = 200
  /\ ~users[last.req.id].isDeleted

(***************************************************************************)
(* Workload: list requests interleaved with writes.  A list handler awaits  *)
(* two queries, find and countDocuments, each against the store as it is    *)
(* when the query runs; another request may be served between the two.      *)
(***************************************************************************)
SnapshotQueries ==
  {DefaultQuery, Query(Some(1), Some(1), None, Absent, NoFilter, Absent)}

\* GET /api/projects as far as the answer of Project.find; `matched` records
\* how many documents matched the filter in the store the items were read from
ProjectListFind(slot, q) ==
  LET page == OrDefault(q.page, PageDefault)
      limit == OrDefault(q.limit, LimitDefault)
      match == Matching(projects, q.filter, FALSE)
      items == FindPage(projects, match, q.sortBy, 1, SkipOf(page, limit), limit)
  IN /\ inflight[slot] = Idle
     /\ inflight' = [inflight EXCEPT ![slot] =
                       [op |-> "projectList", q |-> q, items |-> items,
                        matched |-> Cardinality(match)]]
     /\ UNCHANGED << projects, projectSeq, last >>

\* the rest of GET /api/projects: Project.countDocuments and the reply
ProjectListCount(slot) ==
  LET q == inflight[slot].q
      page == OrDefault(q.page, PageDefault)
      limit == OrDefault(q.limit, LimitDefault)
      total == Cardinality(Matching(projects, q.filter, FALSE))
  IN /\ inflight[slot].op = "projectList"
     /\ last' = ListOutcome("projectList", q, total, page, limit, inflight[slot].items)
                  @@ [matched |-> inflight[slot].matched]
     /\ inflight' = [inflight EXCEPT ![slot] = Idle]
     /\ UNCHANGED << projects, projectSeq >>

\* GET /api/test-plans as far as the answer of TestPlan.countDocuments
TestPlanListCount(slot, q) ==
  /\ inflight[slot] = Idle
  /\ inflight' = [inflight EXCEPT ![slot] =
                    [op |-> "testPlanList", q |-> q,
                     total |-> Cardinality(Matching(testPlans, q.filter, TRUE))]]
  /\ UNCHANGED << testPlans, last >>

\* the rest of GET /api/test-plans: TestPlan.find and the reply
TestPlanListFind(slot) ==
  LET q == inflight[slot].q
      page == OrDefault(q.page, PageDefault)
      limit == OrDefault(q.limit, LimitDefault)
      match == Matching(testPlans, q.filter, TRUE)
      items == FindPage(testPlans, match, q.sortBy, 1, SkipOf(page, limit), limit)
  IN /\ inflight[slot].op = "testPlanList"
     /\ last' = ListOutcome("testPlanList", q, inflight[slot].total, page, limit, items)
                  @@ [matched |-> Cardinality(match)]
     /\ inflight' = [inflight EXCEPT ![slot] = Idle]
     /\ UNCHANGED testPlans

SnapProjectFind ==
  /\ scope = "projects"
  /\ \E slot \in Slots, q \in SnapshotQueries : ProjectListFind(slot, q)
  /\ UNCHANGED << scope, permissions, roles, users, testPlans, testSteps, now >>

SnapProjectCount ==
  /\ \E slot \in Slots : ProjectListCount(slot)
  /\ UNCHANGED << scope, permissions, roles, users, testPlans, testSteps, now >>

SnapPlanCount ==
  /\ scope = "testPlans"
  /\ \E slot \in Slots, q \in SnapshotQueries : TestPlanListCount(slot, q)
  /\ UNCHANGED << scope, permissions, roles, users, projects, projectSeq, testSteps, now >>

SnapPlanFind ==
  /\ \E slot \in Slots : TestPlanListFind(slot)
  /\ UNCHANGED << scope, permissions, roles, users, projects, projectSeq, testSteps, now >>

InitSnapshots ==
  \/ scope = "projects" /\ InitStores
  \/ InitTestPlans

NextSnapshots ==
  \/ SnapProjectFind
  \/ SnapProjectCount
  \/ SnapPlanCount
  \/ SnapPlanFind
  \/ ProjectSeed
  \/ ProjectRemove
  \/ TestPlanSoftDelete

SpecSnapshots == InitSnapshots /\ [][NextSnapshots]_vars

(***************************************************************************)
(* C27: the envelope of a list reply is consistent when creates and soft    *)
(* deletes are served while the list request is in progress: the total it   *)
(* reports is the number of documents that matched the filter in the store  *)
(* state from which the returned items were read.                           *)
(***************************************************************************)
C27_TotalCountsTheStoreTheItemsCameFrom ==
  (last.op \in {"projectList", "testPlanList"} /\ last.status = 200)
    => last.total = last.matched

\* request r names a document of `coll` that is soft-deleted, and supplies a
\* field to write to it
UpdatesDeleted(coll, r, strs, opts) ==
  /\ r.req.id \in DOMAIN coll
  /\ coll[r.req.id].isDeleted
  /\ ~SuppliesNothing(r, strs, opts)

(***************************************************************************)
(* C28: for every entity type, an update addressed to a soft-deleted        *)
(* document is answered NotFound and leaves the document, and the rest of   *)
(* its collection, unchanged.                                               *)
(***************************************************************************)
C28_UpdateOfDeletedIsNotFound ==
  [][/\ (last'.op = "permissionPut"
         /\ UpdatesDeleted(permissions, last', {"key", "name", "description"}, {}))
          => (last'.status = 404 /\ permissions' = permissions)
     /\ (last'.op = "rolePut"
         /\ UpdatesDeleted(roles, last', {"name", "key", "description"}, {"permissions"}))
          => (last'.status = 404 /\ roles' = roles)
     /\ (last'.op = "userPut"
         /\ UpdatesDeleted(users, last', {"name", "email", "provider"}, {"roles"}))
          => (last'.status = 404 /\ users' = users)
     /\ (last'.op = "projectPut"
         /\ UpdatesDeleted(projects, last', {"name", "description"}, {}))
          => (last'.status = 404 /\ projects' = projects)
     /\ (last'.op = "testPlanPut"
         /\ UpdatesDeleted(testPlans, last', {"name", "description"}, {"project_id"}))
          => (last'.status = 404 /\ testPlans' = testPlans)
     /\ (last'.op = "testStepPut"
         /\ UpdatesDeleted(testSteps, last', {"name", "description", "expected_result"}, {}))
          => (last'.status = 404 /\ testSteps' = testSteps)
    ]_vars

RoleBodyOf(r) == IF r.op = "rolePut" THEN r.req.body ELSE r.req

\* the body of a role request that carries name, key, description and a
\* non-empty list of permission ids
CarriesPermissions(r) ==
  /\ r.op \in {"rolePost", "rolePut"}
  /\ Truthy(RoleBodyOf(r).name) /\ Truthy(RoleBodyOf(r).key) /\ Truthy(RoleBodyOf(r).description)
  /\ IsSome(RoleBodyOf(r).permissions)
  /\ Len(Get(RoleBodyOf(r).permissions)) > 0

(***************************************************************************)
(* C30: a Role create or update whose body carries name, key, description   *)
(* and a non-empty permissions list passes the reference check exactly when *)
(* every id in the list identifies a stored Permission; a list that names   *)
(* the same stored Permission more than once therefore passes it.           *)
(***************************************************************************)
C30_ReferenceCheckIsMembership ==
  [][CarriesPermissions(last') =>
       ((last'.error # "Invalid permissions provided")
          <=> (Range(Get(RoleBodyOf(last').permissions)) \subseteq DOMAIN permissions))
    ]_vars

=============================================================================
